---- MODULE Spec2Model ----
(***************************************************************************)
(* Verification model of the gscindex aggregation-and-scoring engine:      *)
(*   scoring/engine.py   compute_composite_index                           *)
(*   data/aggregator.py  aggregate_data (one refresh cycle)                *)
(*   data/cache.py       the file-based store (get_cached / set_cached)    *)
(*   app.py              startup load, start_background_thread,            *)
(*                       update_data_loop                                  *)
(*                                                                         *)
(* Numbers.  Scores are fixed-point tenths (50.0 is 500).  Weights are     *)
(* fixed-point millionths (0.10 is 100000).  A composite is the product of *)
(* the two, so 63.5 is 635000000 and 100.0 is 1000000000.                  *)
(*                                                                         *)
(* The specifications share the variables; each one holds the variables    *)
(* of the others at their idle values:                                     *)
(*   SpecScore     compute_composite_index applied to bounded inputs       *)
(*   SpecAgg       one aggregate_data cycle, tasks and deadlines           *)
(*   SpecScoreAgg  both of the above                                       *)
(*   SpecCache     a writer and a reader of one stored key                 *)
(*   Spec          the process: startup, triggers, updater loops           *)
(***************************************************************************)
EXTENDS Integers, Sequences, FiniteSets, TLC

VARIABLES
    \* ---- SpecScore: one call of compute_composite_index
    in_scores,      \* argument category_scores
    in_weights,     \* argument weights (the empty map stands for None / {})
    score_pc,       \* "idle", "call", "returned"
    score_result    \* what the call produced

score_vars == <<in_scores, in_weights, score_pc, score_result>>

VARIABLES
    \* ---- configuration and store, shared by SpecAgg and Spec
    config_weights, \* config.CATEGORY_WEIGHTS as the process was started with
    disk            \* stored document of key "dashboard_snapshot_safe", or NoDoc

VARIABLES
    \* ---- SpecAgg: one call of aggregate_data
    agg_pc,             \* position of the orchestrator in aggregate_data
    task,               \* per submitted task: "none", "running", "returned",
                        \* "raised"
    abandoned,          \* tasks whose deadline expired before they returned
    observed,           \* what each yielded provider task did (its outcome)
    faults,             \* raising / empty provider outcomes drawn so far
    current_scores,     \* dict category -> score
    category_history,   \* dict category -> series
    provider_errors,    \* dict category -> message
    alerts,             \* "none" | "empty" | "news"
    market_data,        \* "none" | "empty" | "market"
    port_summaries,     \* "none" | "empty" | "summaries"
    composite,          \* result of compute_composite_index in the cycle
    agg_result,         \* the dict aggregate_data returns, or NoResult
    today               \* the date of datetime.now(); the cycle begins on day 0

agg_vars == <<agg_pc, task, abandoned, observed, faults, current_scores,
              category_history, provider_errors, alerts, market_data,
              port_summaries, composite, agg_result, today>>

VARIABLES
    \* ---- SpecCache: one stored key, a writer and a reader
    file,       \* the file of the key: exists, content (chunks), mtime
    now,        \* time.time(), in half hours
    w_pc,       \* writer position in set_cached: "idle", "writing"
    w_doc,      \* the document the writer is writing (its version)
    r_pc,       \* reader position in get_cached
    r_ttl,      \* the reader's ttl argument
    r_result,   \* what the last get_cached returned or raised
    reads       \* completed reads

cache_vars == <<file, now, w_pc, w_doc, r_pc, r_ttl, r_result, reads>>

VARIABLES
    \* ---- Spec: the process (app.py)
    main_pc,        \* the importing thread: "idle", "import", "loaded",
                    \* "aborted"
    triggers,       \* calls of start_background_thread made
    thread,         \* per call: the thread it started, and where that is
    new_data,       \* per updater loop: what aggregate_data gave it
    fetch_started,  \* per updater loop: local fetch_started
    cycles,         \* refresh cycles begun
    _DATA_CACHE,    \* the published Snapshot, or NoResult for None
    _LAST_UPDATE,   \* time of the last publication, -1 for None
    _DATA_IS_FRESH,
    _LAST_FETCH_STATUS,
    _LAST_FETCH_ERROR,              \* a message, or "None"
    _LAST_FETCH_DURATION_SECONDS,   \* -1 for None
    response        \* what the last request of a consumer was answered

app_vars == <<main_pc, triggers, thread, new_data, fetch_started, cycles,
              _DATA_CACHE, _LAST_UPDATE, _DATA_IS_FRESH, _LAST_FETCH_STATUS,
              _LAST_FETCH_ERROR, _LAST_FETCH_DURATION_SECONDS, response>>

VARIABLES
    \* ---- SpecLock: the with _LOCK blocks of app.py, statement by statement
    lock,           \* the threads inside a with _LOCK block
    step,           \* per updater loop: statements of its block executed
    written_by,     \* per shared global: the cycle whose block assigned it
                    \* last, 0 for the import of the module
    request         \* per endpoint: the request being served, its position
                    \* and its local copies

lock_vars == <<lock, step, written_by, request>>

VARIABLES
    \* ---- SpecDerive: what aggregate_data derives from the scores and the
    \* alerts of a cycle; SpecTier: get_health_tier
    derive_pc,          \* "idle" | "markers" | "disruptions" | "returned"
    scores_in,          \* current_scores after the missing ones are filled
    scores_order,       \* the order in which current_scores got its keys
    alerts_in,          \* the alert list of the news task
    batch_weather,      \* fetch_batch_port_weather: port -> local score
    map_markers,        \* the markers _derive_map_markers returned
    disruptions,        \* the disruption list
    tier_score,         \* the argument of get_health_tier, in tenths
    tier_result         \* what get_health_tier returned

derive_vars == <<derive_pc, scores_in, scores_order, alerts_in, batch_weather,
                 map_markers, disruptions, tier_score, tier_result>>

vars == <<score_vars, config_weights, disk, agg_vars, cache_vars, app_vars,
          lock_vars, derive_vars>>

(***************************************************************************)
(* config.py                                                               *)
(***************************************************************************)
CATEGORY_WEIGHTS ==
    [weather |-> 100000, supply_chain |-> 200000, energy |-> 200000,
     tariffs |-> 150000, trucking |-> 150000, geopolitical |-> 200000]

Categories == DOMAIN CATEGORY_WEIGHTS

(***************************************************************************)
(* scoring/engine.py                                                       *)
(***************************************************************************)
ONE == 1000000          \* 1.0 as a weight sum
ATOL == 10000           \* atol=0.01 of np.isclose
RTOL_TIMES_ONE == 10    \* numpy's default rtol=1e-05, times |1.0|
COMPOSITE_MAX == 1000000000   \* 100.0 as a composite

RECURSIVE SumOver(_, _)
\* Python's sum() over the values f[k], k in S.
SumOver(f, S) ==
    IF S = {} THEN 0
    ELSE LET k == CHOOSE x \in S : TRUE
         IN  f[k] + SumOver(f, S \ {k})

Abs(x) == IF x < 0 THEN -x ELSE x

\* np.isclose(a, 1.0, atol=0.01): |a - b| <= atol + rtol * |b| with b = 1.0
isclose_one(a) == Abs(a - ONE) <= ATOL + RTOL_TIMES_ONE

\* np.clip(x, 0.0, 100.0)
clip(x) == IF x < 0 THEN 0 ELSE IF x > COMPOSITE_MAX THEN COMPOSITE_MAX ELSE x

\* weights = weights or CATEGORY_WEIGHTS   (None and {} are both falsy)
weights_or_default(weights) ==
    IF DOMAIN weights = {} THEN config_weights ELSE weights

Raised(kind) == [kind |-> kind, value |-> 0]
Returned(v) == [kind |-> "value", value |-> v]

\* compute_composite_index without the clamp of line 67
compute_composite_index_noclip(category_scores, weights) ==
    LET w == weights_or_default(weights)
        weight_sum == SumOver(w, DOMAIN w)
        missing == DOMAIN w \ DOMAIN category_scores
    IN  IF ~isclose_one(weight_sum) THEN Raised("ValueError_weights")
        ELSE IF missing # {} THEN Raised("ValueError_missing")
        ELSE Returned(SumOver([c \in DOMAIN w |-> w[c] * category_scores[c]],
                              DOMAIN w))

\* compute_composite_index with the two checks in the other order
compute_composite_index_missing_first(category_scores, weights) ==
    LET w == weights_or_default(weights)
        weight_sum == SumOver(w, DOMAIN w)
        missing == DOMAIN w \ DOMAIN category_scores
    IN  IF missing # {} THEN Raised("ValueError_missing")
        ELSE IF ~isclose_one(weight_sum) THEN Raised("ValueError_weights")
        ELSE Returned(clip(SumOver([c \in DOMAIN w |-> w[c] * category_scores[c]],
                                   DOMAIN w)))

\* compute_composite_index reading a missing score as 0 instead of raising
compute_composite_index_get_default(category_scores, weights) ==
    LET w == weights_or_default(weights)
        weight_sum == SumOver(w, DOMAIN w)
        get(c) == IF c \in DOMAIN category_scores THEN category_scores[c] ELSE 0
    IN  IF ~isclose_one(weight_sum) THEN Raised("ValueError_weights")
        ELSE Returned(clip(SumOver([c \in DOMAIN w |-> w[c] * get(c)], DOMAIN w)))

\* compute_composite_index with the weight check dropped
compute_composite_index_unchecked(category_scores, weights) ==
    LET w == weights_or_default(weights)
        missing == DOMAIN w \ DOMAIN category_scores
    IN  IF missing # {} THEN Raised("ValueError_missing")
        ELSE Returned(clip(SumOver([c \in DOMAIN w |-> w[c] * category_scores[c]],
                                   DOMAIN w)))

compute_composite_index(category_scores, weights) ==
    LET w == weights_or_default(weights)
        weight_sum == SumOver(w, DOMAIN w)
        missing == DOMAIN w \ DOMAIN category_scores
    IN  IF ~isclose_one(weight_sum) THEN Raised("ValueError_weights")
        ELSE IF missing # {} THEN Raised("ValueError_missing")
        ELSE Returned(clip(SumOver([c \in DOMAIN w |-> w[c] * category_scores[c]],
                                   DOMAIN w)))

(***************************************************************************)
(* SpecScore: the inputs compute_composite_index is applied to             *)
(***************************************************************************)
NoWeights == <<>>

\* Six-category weight maps: the configuration itself, sums of 0.9, 0.99,
\* 1.010005 and 1.02.
SixKeyWeights ==
    { CATEGORY_WEIGHTS,
      [CATEGORY_WEIGHTS EXCEPT !.weather = 0],
      [CATEGORY_WEIGHTS EXCEPT !.weather = 90000],
      [CATEGORY_WEIGHTS EXCEPT !.weather = 110005],
      [CATEGORY_WEIGHTS EXCEPT !.weather = 120000] }

\* Scores of the scenario: {90, 80, 70, 60, 50, 40}
ScenarioScores ==
    [weather |-> 900, supply_chain |-> 800, energy |-> 700,
     tariffs |-> 600, trucking |-> 500, geopolitical |-> 400]

SixKeyScores ==
    {ScenarioScores} \cup
    UNION { [S -> {0, 1000}] : S \in SUBSET Categories }

TwoKeys == {"energy", "weather"}
TwoKeyWeightValues == {-500000, 494995, 500000, 505005, 510010, 1500000}
TwoKeyWeights == [TwoKeys -> TwoKeyWeightValues]

ThreeKeys == {"energy", "weather", "chokepoint"}
ScoreValues == {-200, 395, 1000, 1200}
ThreeKeyScores == UNION { [S -> ScoreValues] : S \in SUBSET ThreeKeys }

ScoreIdle ==
    /\ in_scores = <<>>
    /\ in_weights = <<>>
    /\ score_pc = "idle"
    /\ score_result = Raised("none")

ScoreInit ==
    /\ \/ /\ in_weights \in SixKeyWeights \cup {NoWeights}
          /\ in_scores \in SixKeyScores
       \/ /\ in_weights \in TwoKeyWeights
          /\ in_scores \in ThreeKeyScores
    /\ score_pc = "call"
    /\ score_result = Raised("none")

CallComposite ==
    /\ score_pc = "call"
    /\ score_result' = compute_composite_index(in_scores, in_weights)
    /\ score_pc' = "returned"
    /\ UNCHANGED <<in_scores, in_weights>>
    /\ UNCHANGED <<config_weights, disk, agg_vars, cache_vars, app_vars,
                   lock_vars, derive_vars>>

(***************************************************************************)
(* data/aggregator.py: one refresh cycle                                   *)
(***************************************************************************)
\* _PROVIDERS, each named by its category
Providers == {"weather", "supply_chain", "energy", "tariffs", "trucking",
              "geopolitical"}
AuxTasks == {"news", "market", "port_summaries"}
Tasks == Providers \cup AuxTasks

NEUTRAL_SCORE == 500        \* 50.0

\* The providers whose operations may raise or return no history, and the
\* providers that may miss the batch deadline (any subset of them may); the
\* code treats every provider alike.  Any subset of the auxiliary tasks may
\* fail or be late.
FlakyProviders == {"weather", "energy", "geopolitical"}
SlowProviders == {"energy", "tariffs", "trucking"}

\* At most this many provider tasks of one cycle raise or return no history.
MaxFaults == 2

\* The score each provider's fetch_current returns when it succeeds.
ProviderScore ==
    [weather |-> 820, supply_chain |-> 655, energy |-> 395,
     tariffs |-> 700, trucking |-> 500, geopolitical |-> 1000]

\* What one provider task does: fetch_current returns or raises (with the
\* text of the exception), fetch_history returns a series, an empty series,
\* or raises.
OutcomeOk ==
    [cur |-> "ok", cur_msg |-> "-", hist |-> "series", hist_msg |-> "-"]
ProviderOutcomes ==
    { OutcomeOk,
      [cur |-> "raise", cur_msg |-> "HTTP 503", hist |-> "series", hist_msg |-> "-"],
      [cur |-> "raise", cur_msg |-> "", hist |-> "series", hist_msg |-> "-"],
      [cur |-> "ok", cur_msg |-> "-", hist |-> "raise", hist_msg |-> "HTTP 500"],
      [cur |-> "ok", cur_msg |-> "-", hist |-> "empty", hist_msg |-> "-"],
      [cur |-> "raise", cur_msg |-> "", hist |-> "raise", hist_msg |-> "HTTP 500"] }

\* Python truthiness of an optional string: None and "" are falsy.
Truthy(msg) == msg \notin {"None", ""}

\* dict[k] = v
Put(d, k, v) == [x \in DOMAIN d \cup {k} |-> IF x = k THEN v ELSE d[x]]

\* config.HISTORY_DAYS is 90; the window of the model is this long
HISTORY_DAYS == 3

\* a missing value of a series
NaN == -1

\* pd.date_range(end=end, periods=periods, freq="D"): consecutive days
date_range(end, periods) == [i \in 1..periods |-> end - periods + i]

\* line 370: the date range of the cycle, computed as aggregate_data begins
dates == date_range(0, HISTORY_DAYS)

\* pd.Series(value, index=index)
flat_series(value, index) ==
    [index |-> index, values |-> [i \in 1..Len(index) |-> value]]

\* history_series = None
NoSeries == [none |-> TRUE]

\* hist_series is not None and not hist_series.empty (line 419)
usable_series(hist_series) ==
    IF hist_series = NoSeries THEN FALSE ELSE Len(hist_series.index) > 0

\* the series each provider's fetch_history(HISTORY_DAYS) returns when it
\* succeeds; each is sorted by date, none ends on the live score:
\*   weather       daily up to yesterday (weather.py:436 end_date)
\*   supply_chain  daily up to today, last value a week old
\*   energy        one observation, yesterday's
\*   the others    daily up to today
ProviderHistory ==
    [weather |-> flat_series(790, date_range(-1, HISTORY_DAYS)),
     supply_chain |-> flat_series(600, date_range(0, HISTORY_DAYS)),
     energy |-> flat_series(300, <<-1>>),
     tariffs |-> flat_series(710, date_range(0, HISTORY_DAYS)),
     trucking |-> flat_series(480, date_range(0, HISTORY_DAYS)),
     geopolitical |-> flat_series(900, date_range(0, HISTORY_DAYS))]

\* a fallback series that is flat at 50 whatever value is passed
make_fallback_series_neutral(days, value) ==
    flat_series(NEUTRAL_SCORE, date_range(today, days))

\* _make_fallback_series(days, name, value): flat at value, on the date
\* range that ends on the day of the call (datetime.now() of line 93)
make_fallback_series(days, value) ==
    flat_series(value, date_range(today, days))

\* hist_series.reindex(index, method="ffill"): on each date the value of the
\* latest observation not after it, NaN when there is none
reindex_ffill(hist_series, index) ==
    [index |-> index,
     values |-> [i \in 1..Len(index) |->
        LET prior == {j \in 1..Len(hist_series.index) :
                         hist_series.index[j] <= index[i]}
        IN  IF prior = {} THEN NaN
            ELSE hist_series.values[CHOOSE j \in prior :
                                       \A k \in prior : k <= j]]]

\* series.fillna(value)
fillna(series, value) ==
    [series EXCEPT !.values =
        [i \in 1..Len(series.values) |->
            IF series.values[i] = NaN THEN value ELSE series.values[i]]]

\* lines 421-428: reindex on dates with ffill, fillna(score), then
\* aligned.iloc[-1] = score
align_history(hist_series, score) ==
    LET aligned == fillna(reindex_ffill(hist_series, dates), score)
    IN  [aligned EXCEPT !.values[Len(aligned.values)] = score]

\* _fetch_provider_data(provider), for a provider task with outcome o
fetch_provider_data(p, o) ==
    LET err1 == IF o.cur = "raise" THEN o.cur_msg ELSE "None"
        score == IF o.cur = "raise" THEN NEUTRAL_SCORE ELSE ProviderScore[p]
        err2 == IF o.hist = "raise" /\ ~Truthy(err1) THEN o.hist_msg ELSE err1
        hist == IF o.hist = "raise" THEN NoSeries
                ELSE IF o.hist = "empty" THEN flat_series(0, <<>>)
                ELSE ProviderHistory[p]
    IN  [cat |-> p, current_score |-> score, history_series |-> hist,
         error_msg |-> err2]

\* the fill loop without line 473: the history of a missing provider is not set
FillMissing_scores_only(scores, history, errors) ==
    LET miss == Providers \ DOMAIN scores
    IN  [current_scores |->
            [c \in DOMAIN scores \cup miss |->
                IF c \in miss THEN NEUTRAL_SCORE ELSE scores[c]],
         category_history |-> history,
         provider_errors |->
            [c \in DOMAIN errors \cup miss |->
                IF c \in miss THEN "Provider timed out" ELSE errors[c]]]

\* lines 470-474: fill every provider that produced no score
FillMissing(scores, history, errors) ==
    LET miss == Providers \ DOMAIN scores
    IN  [current_scores |->
            [c \in DOMAIN scores \cup miss |->
                IF c \in miss THEN NEUTRAL_SCORE ELSE scores[c]],
         category_history |->
            [c \in DOMAIN history \cup miss |->
                IF c \in miss
                THEN make_fallback_series(HISTORY_DAYS, NEUTRAL_SCORE)
                ELSE history[c]],
         provider_errors |->
            [c \in DOMAIN errors \cup miss |->
                IF c \in miss THEN "Provider timed out" ELSE errors[c]]]

NoDoc == [present |-> FALSE]
NoResult == [present |-> FALSE]

\* json null
JsonNull == -2

\* Timestamp.strftime("%Y-%m-%d"): the text of a day
strftime(day) == <<"Y-m-d", day>>

\* pd.to_datetime of such a text
to_datetime(text) == text[2]

\* series.replace({np.nan: None}).tolist(): the values, without the index
tolist(series) ==
    [list |-> [i \in 1..Len(series.values) |->
                 IF series.values[i] = NaN THEN JsonNull ELSE series.values[i]]]

\* set_cached_dashboard (data/cache.py, lines 123-147): the JSON-safe copy
\* that set_cached stores; numbers and strings go through json unchanged
set_cached_dashboard(data) ==
    [data EXCEPT
        !.dates = [i \in 1..Len(data.dates) |-> strftime(data.dates[i])],
        !.category_history =
            [c \in DOMAIN data.category_history |->
                tolist(data.category_history[c])]]

\* pd.Series(values, index=index): None becomes NaN in a float series
Series(values, index) ==
    [index |-> index,
     values |-> [i \in 1..Len(values) |->
                   IF values[i] = JsonNull THEN NaN ELSE values[i]]]

\* restoring with pd.Series(values).reindex(index): the values sit on
\* 0..n-1, no label of index is found, every value is NaN
reconstruct_dashboard_state_reindexing(data) ==
    LET restored == [i \in 1..Len(data.dates) |-> to_datetime(data.dates[i])]
    IN  [data EXCEPT
            !.dates = restored,
            !.category_history =
                [c \in DOMAIN data.category_history |->
                    [index |-> restored,
                     values |-> [i \in 1..Len(restored) |-> NaN]]]]

\* reconstruct_dashboard_state (data/cache.py, lines 150-165): the dates
\* become an index again and every history list a Series on it; a list of
\* another length than the dates raises inside the try and the document is
\* returned with the lists as they were
reconstruct_dashboard_state(data) ==
    LET restored == [i \in 1..Len(data.dates) |-> to_datetime(data.dates[i])]
        fits == \A c \in DOMAIN data.category_history :
                    Len(data.category_history[c].list) = Len(restored)
    IN  IF Len(data.dates) = 0 THEN data
        ELSE IF ~fits THEN [data EXCEPT !.dates = restored]
        ELSE [data EXCEPT
                !.dates = restored,
                !.category_history =
                    [c \in DOMAIN data.category_history |->
                        Series(data.category_history[c].list, restored)]]

AggIdle ==
    /\ agg_pc = "idle"
    /\ task = [t \in Tasks |-> "none"]
    /\ abandoned = {}
    /\ observed = <<>>
    /\ faults = 0
    /\ current_scores = <<>>
    /\ category_history = <<>>
    /\ provider_errors = <<>>
    /\ alerts = "none"
    /\ market_data = "none"
    /\ port_summaries = "none"
    /\ composite = Raised("none")
    /\ agg_result = NoResult
    /\ today = 0

AggInit ==
    /\ agg_pc = "submit"
    /\ task = [t \in Tasks |-> "none"]
    /\ abandoned = {}
    /\ observed = <<>>
    /\ faults = 0
    /\ current_scores = <<>>
    /\ category_history = <<>>
    /\ provider_errors = <<>>
    /\ alerts = "none"
    /\ market_data = "none"
    /\ port_summaries = "none"
    /\ composite = Raised("none")
    /\ agg_result = NoResult
    /\ today = 0

outside_agg == <<score_vars, derive_vars, config_weights, cache_vars,
                 app_vars, lock_vars>>

\* midnight passes while the cycle runs: datetime.now() is on the next day
Midnight ==
    /\ agg_pc \notin {"idle", "done", "raised"}
    /\ today = 0
    /\ today' = 1
    /\ UNCHANGED <<agg_pc, task, abandoned, observed, faults, current_scores,
                   category_history, provider_errors, alerts, market_data,
                   port_summaries, composite, agg_result, disk>>
    /\ UNCHANGED outside_agg

\* lines 376-390: every provider task and the three auxiliary tasks are
\* submitted to the pool (max_workers=10, nine tasks: all start)
SubmitTasks ==
    /\ agg_pc = "submit"
    /\ task' = [t \in Tasks |-> "running"]
    /\ agg_pc' = "collect"
    /\ UNCHANGED <<abandoned, observed, faults, current_scores,
                   category_history, provider_errors, alerts, market_data,
                   port_summaries, composite, agg_result, disk>>
    /\ UNCHANGED <<today, outside_agg>>

\* lines 400-433: a provider task returns and as_completed yields it
YieldCompleted(p) ==
    /\ agg_pc = "collect"
    /\ task[p] = "running"
    /\ \E o \in ProviderOutcomes :
          /\ o = OutcomeOk \/ (p \in FlakyProviders /\ faults < MaxFaults)
          /\ faults' = IF o = OutcomeOk THEN faults ELSE faults + 1
          /\ observed' = Put(observed, p, o)
          /\ LET r == fetch_provider_data(p, o)
             IN  /\ current_scores' = Put(current_scores, r.cat, r.current_score)
                 /\ provider_errors' =
                        IF Truthy(r.error_msg)
                        THEN Put(provider_errors, r.cat, r.error_msg)
                        ELSE provider_errors
                 /\ category_history' =
                        IF usable_series(r.history_series)
                        THEN Put(category_history, r.cat,
                                 align_history(r.history_series,
                                               r.current_score))
                        ELSE Put(category_history, r.cat,
                                 make_fallback_series(HISTORY_DAYS,
                                                      r.current_score))
    /\ task' = [task EXCEPT ![p] = "returned"]
    /\ UNCHANGED <<agg_pc, abandoned, alerts, market_data, port_summaries,
                   composite, agg_result, disk>>
    /\ UNCHANGED <<today, outside_agg>>

\* as_completed is exhausted: every provider future was yielded
CollectDone ==
    /\ agg_pc = "collect"
    /\ \A p \in Providers : task[p] = "returned"
    /\ agg_pc' = "news"
    /\ UNCHANGED <<task, abandoned, observed, faults, current_scores,
                   category_history, provider_errors, alerts, market_data,
                   port_summaries, composite, agg_result, disk>>
    /\ UNCHANGED <<today, outside_agg>>

\* lines 438-439: as_completed(timeout=45) raises TimeoutError while some
\* provider future is still pending; the loop is left
BatchTimeout ==
    /\ agg_pc = "collect"
    /\ \E p \in Providers : task[p] = "running"
    /\ {p \in Providers : task[p] = "running"} \subseteq SlowProviders
    /\ abandoned' = abandoned \cup {p \in Providers : task[p] = "running"}
    /\ agg_pc' = "news"
    /\ UNCHANGED <<task, observed, faults, current_scores, category_history,
                   provider_errors, alerts, market_data, port_summaries,
                   composite, agg_result, disk>>
    /\ UNCHANGED <<today, outside_agg>>

\* future.result(timeout=...) of an auxiliary task: its value, an exception
\* it raised, or the deadline
AuxWaits == {"value", "raised", "timeout"}

AuxTaskAfter(t, how) ==
    [task EXCEPT ![t] = IF how = "timeout" THEN "running"
                        ELSE IF how = "raised" THEN "raised"
                        ELSE "returned"]

\* an auxiliary result that is left unset when the wait fails
aux_result_unset(how, value) == IF how = "value" THEN value ELSE "none"

\* what the orchestrator keeps of an auxiliary task: its value, or the empty
\* default set before the try (lines 442-444, 452, 459) when the wait raised
aux_result(how, value) == IF how = "value" THEN value ELSE "empty"

AuxAbandonedAfter(t, how) ==
    IF how = "timeout" THEN abandoned \cup {t} ELSE abandoned

\* lines 441-449: future_news.result(timeout=5)
WaitNews ==
    /\ agg_pc = "news"
    /\ \E how \in AuxWaits :
          /\ alerts' = aux_result(how, "news")
          /\ task' = AuxTaskAfter("news", how)
          /\ abandoned' = AuxAbandonedAfter("news", how)
    /\ agg_pc' = "market"
    /\ UNCHANGED <<observed, faults, current_scores, category_history,
                   provider_errors, market_data, port_summaries, composite,
                   agg_result, disk>>
    /\ UNCHANGED <<today, outside_agg>>

\* lines 451-456: future_market.result(timeout=5) or {}
WaitMarket ==
    /\ agg_pc = "market"
    /\ \E how \in AuxWaits :
          /\ market_data' = aux_result(how, "market")
          /\ task' = AuxTaskAfter("market", how)
          /\ abandoned' = AuxAbandonedAfter("market", how)
    /\ agg_pc' = "ports"
    /\ UNCHANGED <<observed, faults, current_scores, category_history,
                   provider_errors, alerts, port_summaries, composite,
                   agg_result, disk>>
    /\ UNCHANGED <<today, outside_agg>>

\* lines 458-463: future_port_summaries.result(timeout=10) or {}
WaitPortSummaries ==
    /\ agg_pc = "ports"
    /\ \E how \in AuxWaits :
          /\ port_summaries' = aux_result(how, "summaries")
          /\ task' = AuxTaskAfter("port_summaries", how)
          /\ abandoned' = AuxAbandonedAfter("port_summaries", how)
    /\ agg_pc' = "with_exit"
    /\ UNCHANGED <<observed, faults, current_scores, category_history,
                   provider_errors, alerts, market_data, composite,
                   agg_result, disk>>
    /\ UNCHANGED <<today, outside_agg>>

\* The tasks the orchestrator is blocked on.  Leaving the with block of
\* line 376 runs ThreadPoolExecutor.__exit__, i.e. shutdown(wait=True), which
\* joins every worker: it returns only when every submitted task returned.
AwaitedTasks ==
    IF agg_pc = "with_exit" THEN {t \in Tasks : task[t] = "running"} ELSE {}

\* tasks still running when the with block is left return at last
AbandonedTasksReturn ==
    /\ agg_pc = "with_exit"
    /\ AwaitedTasks # {}
    /\ task' = [t \in Tasks |->
                  IF task[t] = "running" THEN "returned" ELSE task[t]]
    /\ UNCHANGED <<agg_pc, abandoned, observed, faults, current_scores,
                   category_history, provider_errors, alerts, market_data,
                   port_summaries, composite, agg_result, disk>>
    /\ UNCHANGED <<today, outside_agg>>

\* end of the with block (line 376), shutdown(wait=True) returned
ExecutorShutdown ==
    /\ agg_pc = "with_exit"
    /\ AwaitedTasks = {}
    /\ agg_pc' = "post"
    /\ UNCHANGED <<task, abandoned, observed, faults, current_scores,
                   category_history, provider_errors, alerts, market_data,
                   port_summaries, composite, agg_result, disk>>
    /\ UNCHANGED <<today, outside_agg>>

\* lines 466-551: fill missing providers, compute the composite (an exception
\* of compute_composite_index leaves aggregate_data), build the result,
\* persist it (a failed write is logged and ignored), return it
PostProcess ==
    /\ agg_pc = "post"
    /\ LET filled == FillMissing(current_scores, category_history, provider_errors)
           comp == compute_composite_index(filled.current_scores, NoWeights)
           result == [present |-> TRUE,
                      dates |-> dates,
                      current_scores |-> filled.current_scores,
                      category_history |-> filled.category_history,
                      provider_errors |-> filled.provider_errors,
                      alerts |-> alerts,
                      market_data |-> market_data]
       IN  /\ current_scores' = filled.current_scores
           /\ category_history' = filled.category_history
           /\ provider_errors' = filled.provider_errors
           /\ composite' = comp
           /\ IF comp.kind = "value"
              THEN /\ agg_result' = result
                   /\ disk' \in {set_cached_dashboard(result), disk}
                   /\ agg_pc' = "done"
              ELSE /\ agg_result' = agg_result
                   /\ disk' = disk
                   /\ agg_pc' = "raised"
    /\ UNCHANGED <<task, abandoned, observed, faults, alerts, market_data,
                   port_summaries>>
    /\ UNCHANGED <<today, outside_agg>>

(***************************************************************************)
(* data/cache.py: the file of one key                                      *)
(***************************************************************************)
\* DEFAULT_TTL_SECONDS = 3600, in the clock's unit of half an hour
DEFAULT_TTL_SECONDS == 2

\* json.dumps of a document is written in this many chunks
DocChunks == 2
\* documents written, one version after the other
MaxWrites == 2
\* get_cached calls of the reader
MaxReads == 2
\* the clock stops here
MaxTime == 3

\* ttl arguments of the reader, in time units
TtlValues == {1, DEFAULT_TTL_SECONDS}

\* json.dumps(data): the text of document v, as its chunks
json_dumps(v) == [i \in 1..DocChunks |-> v]

\* json.loads(text): the document, or JSONDecodeError for any text that is
\* not a whole document (the empty text included)
json_loads(text) ==
    IF Len(text) = DocChunks /\ \A i \in 1..DocChunks : text[i] = text[1]
    THEN [kind |-> "doc", doc |-> text[1]]
    ELSE [kind |-> "JSONDecodeError", doc |-> 0]

NoFile == [exists |-> FALSE, content |-> <<>>, mtime |-> 0]
NotRead == [kind |-> "none", doc |-> 0]
ReturnedNone == [kind |-> "None", doc |-> 0]

CacheIdle ==
    /\ file = NoFile
    /\ now = 0
    /\ w_pc = "idle"
    /\ w_doc = 0
    /\ r_pc = "idle"
    /\ r_ttl = 0
    /\ r_result = NotRead
    /\ reads = 0

CacheInit ==
    /\ file \in {NoFile, [exists |-> TRUE, content |-> json_dumps(0), mtime |-> 0]}
    /\ now = 0
    /\ w_pc = "idle"
    /\ w_doc = 0
    /\ r_pc = "idle"
    /\ r_ttl = 0
    /\ r_result = NotRead
    /\ reads = 0

outside_cache == <<score_vars, derive_vars, config_weights, disk, agg_vars,
                   app_vars, lock_vars>>

Tick ==
    /\ now < MaxTime
    /\ now' = now + 1
    /\ UNCHANGED <<file, w_pc, w_doc, r_pc, r_ttl, r_result, reads>>
    /\ UNCHANGED outside_cache

\* path.write_text, open(path, "w"): the file is created or truncated
write_text_open(f, t) == [exists |-> TRUE, content |-> <<>>, mtime |-> t]

\* set_cached (lines 80-82), first step: open for writing
SetCachedOpen ==
    /\ w_pc = "idle"
    /\ w_doc < MaxWrites
    /\ w_doc' = w_doc + 1
    /\ file' = write_text_open(file, now)
    /\ w_pc' = "writing"
    /\ UNCHANGED <<now, r_pc, r_ttl, r_result, reads>>
    /\ UNCHANGED outside_cache

\* set_cached, next steps: the text reaches the file chunk by chunk; the
\* file is closed after the last one
SetCachedWrite ==
    /\ w_pc = "writing"
    /\ LET text == json_dumps(w_doc)
           done == Len(file.content)
       IN  /\ file' = [exists |-> TRUE,
                       content |-> IF done + 1 = DocChunks THEN text
                                   ELSE SubSeq(text, 1, done + 1),
                       mtime |-> now]
           /\ w_pc' = IF done + 1 = DocChunks THEN "idle" ELSE "writing"
    /\ UNCHANGED <<now, w_doc, r_pc, r_ttl, r_result, reads>>
    /\ UNCHANGED outside_cache

\* get_cached (lines 59-61): path.exists()
GetCachedExists ==
    /\ r_pc = "idle"
    /\ reads < MaxReads
    /\ \E ttl \in TtlValues : r_ttl' = ttl
    /\ IF file.exists
       THEN /\ r_pc' = "stat"
            /\ UNCHANGED <<r_result, reads>>
       ELSE /\ r_pc' = "idle"
            /\ r_result' = ReturnedNone
            /\ reads' = reads + 1
    /\ UNCHANGED <<file, now, w_pc, w_doc>>
    /\ UNCHANGED outside_cache

\* get_cached (lines 63-65): the age check
GetCachedStat ==
    /\ r_pc = "stat"
    /\ IF now - file.mtime > r_ttl
       THEN /\ r_pc' = "idle"
            /\ r_result' = ReturnedNone
            /\ reads' = reads + 1
       ELSE /\ r_pc' = "read"
            /\ UNCHANGED <<r_result, reads>>
    /\ UNCHANGED <<file, now, w_pc, w_doc, r_ttl>>
    /\ UNCHANGED outside_cache

\* get_cached (line 67): json.loads(path.read_text())
GetCachedRead ==
    /\ r_pc = "read"
    /\ r_result' = json_loads(file.content)
    /\ reads' = reads + 1
    /\ r_pc' = "idle"
    /\ UNCHANGED <<file, now, w_pc, w_doc, r_ttl>>
    /\ UNCHANGED outside_cache

(***************************************************************************)
(* app.py: startup load, start_background_thread, update_data_loop         *)
(***************************************************************************)
\* calls of start_background_thread
MaxTriggers == 2
\* refresh cycles begun, over all updater loops
MaxCycles == 3

Threads == 1..MaxTriggers

\* the names data/cache.py defines (its def statements).  The four lines
\* 167-170 that call get_cached("dashboard_snapshot_safe", ttl=3600) follow
\* the return statements of reconstruct_dashboard_state: no def introduces
\* them, so the module has no name get_cached_dashboard.
cache_module_names ==
    {"get_cached", "set_cached", "clear_cache", "get_cached_pickle",
     "set_cached_pickle", "set_cached_dashboard",
     "reconstruct_dashboard_state"}

_KEY_MIGRATIONS == [ports |-> "supply_chain", shipping |-> "trucking"]

\* _migrate_keys on one section of the document
migrate_section(sub) ==
    LET moved == {o \in DOMAIN _KEY_MIGRATIONS :
                     o \in DOMAIN sub /\ _KEY_MIGRATIONS[o] \notin DOMAIN sub}
        kept == DOMAIN sub \ moved
    IN  [k \in kept \cup {_KEY_MIGRATIONS[o] : o \in moved} |->
            IF k \in kept THEN sub[k]
            ELSE sub[CHOOSE o \in moved : _KEY_MIGRATIONS[o] = k]]

_migrate_keys(data) ==
    [data EXCEPT !.current_scores = migrate_section(@),
                 !.category_history = migrate_section(@)]

\* a stored document with the given category keys, as set_cached_dashboard
\* wrote it
StoredDoc(keys) ==
    [present |-> TRUE,
     dates |-> [i \in 1..Len(dates) |-> strftime(dates[i])],
     current_scores |-> [k \in keys |-> 700],
     category_history |-> [k \in keys |-> tolist(flat_series(700, dates))],
     provider_errors |-> <<>>,
     alerts |-> "news",
     market_data |-> "market"]

\* key sets of the documents a previous run (of this or an older version)
\* may have left in the store
StoredKeySets ==
    { Categories,
      Categories \ {"tariffs"},
      (Categories \ {"supply_chain", "trucking"}) \cup {"ports", "shipping"},
      (Categories \ {"supply_chain", "trucking", "weather"}) \cup {"ports"},
      {} }

\* stored documents that cannot be read back: the file cannot be read, its
\* text is not JSON, or a history list does not fit the stored dates
CorruptDocs ==
    { [corrupt |-> "unreadable"] @@ StoredDoc(Categories),
      [corrupt |-> "invalid_json"] @@ StoredDoc(Categories),
      [StoredDoc(Categories) EXCEPT
          !.category_history["energy"] = [list |-> <<700>>]] }

\* get_cached on the stored document (data/cache.py, lines 59-67):
\* path.read_text raises OSError, json.loads raises JSONDecodeError
get_cached_raises(d) == "corrupt" \in DOMAIN d

\* an exception that left the module: the import of app.py fails
Aborted == [present |-> FALSE, aborted |-> TRUE]

\* the startup load with the import succeeding and no try around it
startup_load_uncaught(d) ==
    IF ~d.present THEN NoResult
    ELSE IF get_cached_raises(d) THEN Aborted
    ELSE LET startup_data == _migrate_keys(reconstruct_dashboard_state(d))
         IN  IF ~(DOMAIN config_weights \subseteq
                     DOMAIN startup_data.current_scores)
             THEN NoResult
             ELSE startup_data

\* the startup load with the import succeeding and no key validation
startup_load_trusting(d) ==
    IF d.present THEN _migrate_keys(reconstruct_dashboard_state(d))
    ELSE NoResult

\* lines 108-128: startup_data.  The import of line 112 raises ImportError
\* (a subclass of Exception), line 126 catches it, startup_data = None.
startup_load(d) ==
    IF "get_cached_dashboard" \notin cache_module_names
    THEN NoResult
    ELSE IF ~d.present THEN NoResult
    ELSE IF get_cached_raises(d) THEN NoResult
    ELSE LET startup_data == _migrate_keys(reconstruct_dashboard_state(d))
             required_keys == DOMAIN config_weights
             cached_keys == DOMAIN startup_data.current_scores
         IN  IF ~(required_keys \subseteq cached_keys) THEN NoResult
             ELSE startup_data

\* threads named "DataUpdater" in threading.enumerate()
DataUpdaters == {i \in Threads : thread[i] \notin {"none", "delayed"}}

\* no request answered yet
\* the handlers that copy shared globals into locals: health (lines
\* 261-307) and serve_layout (313-345).  update_boot_status (373-386) only
\* tests _DATA_CACHE inside its block and keeps no copy.
Endpoints == {"health", "layout"}

\* the locals of a handler before it has assigned them
NoCopies ==
    [data |-> NoResult, is_fresh |-> FALSE, last_update |-> -1,
     fetch_status |-> "starting", fetch_error |-> "None",
     fetch_duration |-> -1]

NoRequest ==
    [pc |-> "idle", step |-> 0, copies |-> NoCopies,
     seen |-> [data |-> 0, is_fresh |-> 0, last_update |-> 0]]

\* line 54: _LOCK = threading.Lock(), nobody inside
LockInit ==
    /\ lock = {}
    /\ step = [i \in Threads |-> 0]
    /\ written_by = [data |-> 0, is_fresh |-> 0, last_update |-> 0]
    /\ request = [e \in Endpoints |-> NoRequest]

NoResponse == [endpoint |-> "none", http |-> 0, state |-> "none", age |-> -1]

AppIdle ==
    /\ main_pc = "idle"
    /\ triggers = 0
    /\ thread = [i \in Threads |-> "none"]
    /\ new_data = [i \in Threads |-> NoResult]
    /\ fetch_started = [i \in Threads |-> 0]
    /\ cycles = 0
    /\ _DATA_CACHE = NoResult
    /\ _LAST_UPDATE = -1
    /\ _DATA_IS_FRESH = FALSE
    /\ _LAST_FETCH_STATUS = "starting"
    /\ _LAST_FETCH_ERROR = "None"
    /\ _LAST_FETCH_DURATION_SECONDS = -1
    /\ response = NoResponse
    /\ LockInit

\* lines 48-54: the module globals as the import of app.py begins
AppInit ==
    /\ main_pc = "import"
    /\ triggers = 0
    /\ thread = [i \in Threads |-> "none"]
    /\ new_data = [i \in Threads |-> NoResult]
    /\ fetch_started = [i \in Threads |-> 0]
    /\ cycles = 0
    /\ _DATA_CACHE = NoResult
    /\ _LAST_UPDATE = -1
    /\ _DATA_IS_FRESH = FALSE
    /\ _LAST_FETCH_STATUS = "starting"
    /\ _LAST_FETCH_ERROR = "None"
    /\ _LAST_FETCH_DURATION_SECONDS = -1
    /\ response = NoResponse
    /\ LockInit

outside_app == <<score_vars, derive_vars, config_weights, agg_vars, file,
                 w_pc, w_doc, r_pc, r_ttl, r_result, reads, lock_vars>>

\* _extract_last_updated(data): the documents aggregate_data builds (lines
\* 528-540) have no key "last_updated_utc", data.get returns None, line 82
\* returns None (written -1)
_extract_last_updated(data) == -1

\* lines 108-140, the import of app.py: the startup load and what it leaves
\* in the globals
StartupLoad ==
    /\ main_pc = "import"
    /\ LET startup_data == startup_load(disk)
       IN  /\ _DATA_CACHE' = startup_data
           /\ _LAST_UPDATE' = IF startup_data.present
                              THEN _extract_last_updated(startup_data) ELSE -1
           /\ _DATA_IS_FRESH' = IF startup_data.present THEN TRUE
                                ELSE _DATA_IS_FRESH
    /\ main_pc' = IF startup_load(disk) = Aborted THEN "aborted" ELSE "loaded"
    /\ UNCHANGED <<triggers, thread, new_data, fetch_started, cycles,
                   _LAST_FETCH_STATUS, _LAST_FETCH_ERROR,
                   _LAST_FETCH_DURATION_SECONDS, now, disk>>
    /\ UNCHANGED <<response, outside_app>>

\* start_background_thread (lines 609-620): when no live thread is named
\* DataUpdater, start an unnamed thread running delayed_start
StartBackgroundThread ==
    /\ main_pc = "loaded"
    /\ triggers < MaxTriggers
    /\ triggers' = triggers + 1
    /\ IF DataUpdaters = {}
       THEN thread' = [thread EXCEPT ![triggers + 1] = "delayed"]
       ELSE thread' = thread
    /\ UNCHANGED <<main_pc, new_data, fetch_started, cycles, _DATA_CACHE,
                   _LAST_UPDATE, _DATA_IS_FRESH, _LAST_FETCH_STATUS,
                   _LAST_FETCH_ERROR, _LAST_FETCH_DURATION_SECONDS, now, disk>>
    /\ UNCHANGED <<response, outside_app>>

\* lines 627 and 634: the module calls start_background_thread once
ModuleStartsUpdater ==
    /\ triggers = 0
    /\ StartBackgroundThread

\* delayed_start (lines 612-618): after time.sleep(2), start the thread
\* named DataUpdater that runs update_data_loop
DelayedStart(i) ==
    /\ thread[i] = "delayed"
    /\ thread' = [thread EXCEPT ![i] = "top"]
    /\ UNCHANGED <<main_pc, triggers, new_data, fetch_started, cycles,
                   _DATA_CACHE, _LAST_UPDATE, _DATA_IS_FRESH,
                   _LAST_FETCH_STATUS, _LAST_FETCH_ERROR,
                   _LAST_FETCH_DURATION_SECONDS, now, disk>>
    /\ UNCHANGED <<response, outside_app>>

\* a cycle that begins without touching the fetch status
LoopBegin_keeps_status(i) ==
    /\ thread[i] = "top"
    /\ cycles < MaxCycles
    /\ cycles' = cycles + 1
    /\ fetch_started' = [fetch_started EXCEPT ![i] = now]
    /\ thread' = [thread EXCEPT ![i] = "fetching"]
    /\ UNCHANGED <<main_pc, triggers, new_data, _DATA_CACHE, _LAST_UPDATE,
                   _DATA_IS_FRESH, _LAST_FETCH_STATUS, _LAST_FETCH_ERROR,
                   _LAST_FETCH_DURATION_SECONDS, now, disk>>
    /\ UNCHANGED <<response, outside_app>>

\* update_data_loop (lines 165-172): a cycle begins; status "running" under
\* _LOCK, then aggregate_data is called
LoopBegin(i) ==
    /\ thread[i] = "top"
    /\ cycles < MaxCycles
    /\ cycles' = cycles + 1
    /\ fetch_started' = [fetch_started EXCEPT ![i] = now]
    /\ _LAST_FETCH_STATUS' = "running"
    /\ _LAST_FETCH_ERROR' = "None"
    /\ thread' = [thread EXCEPT ![i] = "fetching"]
    /\ UNCHANGED <<main_pc, triggers, new_data, _DATA_CACHE, _LAST_UPDATE,
                   _DATA_IS_FRESH, _LAST_FETCH_DURATION_SECONDS, now, disk>>
    /\ UNCHANGED <<response, outside_app>>

\* the dict aggregate_data returns when the providers in delivered produced
\* their score and series and every other provider missed the deadline
CycleResult(delivered) ==
    LET filled == FillMissing([p \in delivered |-> ProviderScore[p]],
                              [p \in delivered |->
                                  align_history(ProviderHistory[p],
                                                ProviderScore[p])],
                              <<>>)
    IN  [present |-> TRUE,
         dates |-> dates,
         current_scores |-> filled.current_scores,
         category_history |-> filled.category_history,
         provider_errors |-> filled.provider_errors,
         alerts |-> "news",
         market_data |-> "market"]

\* what the providers of a cycle may deliver
Deliveries == {Providers, {}}

\* aggregate_data returns (line 172): the composite check of line 478 passed,
\* the result was handed to set_cached_dashboard (a failed write is ignored)
AggregateReturns(i) ==
    /\ thread[i] = "fetching"
    /\ \E delivered \in Deliveries :
          LET result == CycleResult(delivered)
              comp == compute_composite_index(result.current_scores, NoWeights)
          IN  /\ comp.kind = "value"
              /\ new_data' = [new_data EXCEPT ![i] = result]
              /\ disk' \in {set_cached_dashboard(result), disk}
    /\ thread' = [thread EXCEPT ![i] = "fetched"]
    /\ UNCHANGED <<main_pc, triggers, fetch_started, cycles, _DATA_CACHE,
                   _LAST_UPDATE, _DATA_IS_FRESH, _LAST_FETCH_STATUS,
                   _LAST_FETCH_ERROR, _LAST_FETCH_DURATION_SECONDS, now>>
    /\ UNCHANGED <<response, outside_app>>

\* aggregate_data raises: compute_composite_index raised at line 478, or an
\* exception left one of the unguarded statements of aggregate_data
AggregateRaises(i) ==
    /\ thread[i] = "fetching"
    /\ \E delivered \in Deliveries, unexpected \in BOOLEAN :
          LET result == CycleResult(delivered)
              comp == compute_composite_index(result.current_scores, NoWeights)
          IN  /\ comp.kind # "value" \/ unexpected
              /\ new_data' = [new_data EXCEPT ![i] =
                    [present |-> FALSE,
                     error |-> IF unexpected THEN "unexpected"
                               ELSE comp.kind]]
    /\ thread' = [thread EXCEPT ![i] = "raised"]
    /\ UNCHANGED <<main_pc, triggers, fetch_started, cycles, _DATA_CACHE,
                   _LAST_UPDATE, _DATA_IS_FRESH, _LAST_FETCH_STATUS,
                   _LAST_FETCH_ERROR, _LAST_FETCH_DURATION_SECONDS, now, disk>>
    /\ UNCHANGED <<response, outside_app>>

\* a publication stamped earlier than the one before it
Publish_backdated(i) ==
    /\ thread[i] = "fetched"
    /\ _DATA_CACHE' = new_data[i]
    /\ _LAST_UPDATE' = _LAST_UPDATE - 1
    /\ _DATA_IS_FRESH' = TRUE
    /\ _LAST_FETCH_STATUS' = "ok"
    /\ _LAST_FETCH_ERROR' = "None"
    /\ _LAST_FETCH_DURATION_SECONDS' = now - fetch_started[i]
    /\ thread' = [thread EXCEPT ![i] = "sleep300"]
    /\ UNCHANGED <<main_pc, triggers, new_data, fetch_started, cycles, now,
                   disk>>
    /\ UNCHANGED <<response, outside_app>>

\* update_data_loop (lines 173-184): the result is published under _LOCK,
\* then time.sleep(300)
Publish(i) ==
    /\ thread[i] = "fetched"
    /\ _DATA_CACHE' = new_data[i]
    /\ _LAST_UPDATE' = IF _extract_last_updated(new_data[i]) # -1
                       THEN _extract_last_updated(new_data[i]) ELSE now
    /\ _DATA_IS_FRESH' = TRUE
    /\ _LAST_FETCH_STATUS' = "ok"
    /\ _LAST_FETCH_ERROR' = "None"
    /\ _LAST_FETCH_DURATION_SECONDS' = now - fetch_started[i]
    /\ thread' = [thread EXCEPT ![i] = "sleep300"]
    /\ UNCHANGED <<main_pc, triggers, new_data, fetch_started, cycles, now,
                   disk>>
    /\ UNCHANGED <<response, outside_app>>

\* a failed cycle that flags the state fresh
CycleFailed_marks_fresh(i) ==
    /\ thread[i] = "raised"
    /\ _LAST_FETCH_STATUS' = "failed"
    /\ _LAST_FETCH_ERROR' = new_data[i].error
    /\ _DATA_IS_FRESH' = TRUE
    /\ thread' = [thread EXCEPT ![i] = "sleep60"]
    /\ UNCHANGED <<main_pc, triggers, new_data, fetch_started, cycles,
                   _DATA_CACHE, _LAST_UPDATE,
                   _LAST_FETCH_DURATION_SECONDS, now, disk>>
    /\ UNCHANGED <<response, outside_app>>

\* a failed cycle that drops the Snapshot
CycleFailed_drops_snapshot(i) ==
    /\ thread[i] = "raised"
    /\ _LAST_FETCH_STATUS' = "failed"
    /\ _LAST_FETCH_ERROR' = new_data[i].error
    /\ _DATA_CACHE' = NoResult
    /\ thread' = [thread EXCEPT ![i] = "sleep60"]
    /\ UNCHANGED <<main_pc, triggers, new_data, fetch_started, cycles,
                   _LAST_UPDATE, _DATA_IS_FRESH,
                   _LAST_FETCH_DURATION_SECONDS, now, disk>>
    /\ UNCHANGED <<response, outside_app>>

\* update_data_loop (lines 186-191): the exception is caught, status
\* "failed" under _LOCK, then time.sleep(60)
CycleFailed(i) ==
    /\ thread[i] = "raised"
    /\ _LAST_FETCH_STATUS' = "failed"
    /\ _LAST_FETCH_ERROR' = new_data[i].error
    /\ thread' = [thread EXCEPT ![i] = "sleep60"]
    /\ UNCHANGED <<main_pc, triggers, new_data, fetch_started, cycles,
                   _DATA_CACHE, _LAST_UPDATE, _DATA_IS_FRESH,
                   _LAST_FETCH_DURATION_SECONDS, now, disk>>
    /\ UNCHANGED <<response, outside_app>>

\* a loop that goes round after a successful cycle only
SleepOver_after_success_only(i) ==
    /\ thread[i] = "sleep300"
    /\ thread' = [thread EXCEPT ![i] = "top"]
    /\ UNCHANGED <<main_pc, triggers, new_data, fetch_started, cycles,
                   _DATA_CACHE, _LAST_UPDATE, _DATA_IS_FRESH,
                   _LAST_FETCH_STATUS, _LAST_FETCH_ERROR,
                   _LAST_FETCH_DURATION_SECONDS, now, disk>>
    /\ UNCHANGED <<response, outside_app>>

\* time.sleep returns; while True goes round
SleepOver(i) ==
    /\ thread[i] \in {"sleep300", "sleep60"}
    /\ thread' = [thread EXCEPT ![i] = "top"]
    /\ UNCHANGED <<main_pc, triggers, new_data, fetch_started, cycles,
                   _DATA_CACHE, _LAST_UPDATE, _DATA_IS_FRESH,
                   _LAST_FETCH_STATUS, _LAST_FETCH_ERROR,
                   _LAST_FETCH_DURATION_SECONDS, now, disk>>
    /\ UNCHANGED <<response, outside_app>>

\* the staleness threshold of health, 1800 seconds, in half hours
STALE_AFTER_SECONDS == 1

\* health deciding on the fetch status alone, the age not looked at
health_response_ignoring_age(has_data, last_update, fetch_status, now_utc) ==
    IF ~has_data
    THEN [endpoint |-> "health", http |-> 503, state |-> "warming_up", age |-> -1]
    ELSE IF fetch_status = "failed"
    THEN [endpoint |-> "health", http |-> 200, state |-> "degraded", age |-> -1]
    ELSE [endpoint |-> "health", http |-> 200, state |-> "healthy", age |-> -1]

\* health (lines 259-307): the globals are copied under _LOCK, the state and
\* the HTTP status are derived from the copies and the clock
health_response(has_data, last_update, fetch_status, now_utc) ==
    LET age_seconds == IF last_update # -1 THEN now_utc - last_update ELSE -1
        stale == age_seconds # -1 /\ age_seconds > STALE_AFTER_SECONDS
    IN  IF ~has_data
        THEN [endpoint |-> "health", http |-> 503, state |-> "warming_up",
              age |-> age_seconds]
        ELSE IF fetch_status = "failed"
        THEN [endpoint |-> "health",
              http |-> IF age_seconds = -1 \/ age_seconds > STALE_AFTER_SECONDS
                       THEN 503 ELSE 200,
              state |-> "degraded", age |-> age_seconds]
        ELSE IF stale
        THEN [endpoint |-> "health", http |-> 200, state |-> "degraded",
              age |-> age_seconds]
        ELSE [endpoint |-> "health", http |-> 200, state |-> "healthy",
              age |-> age_seconds]

\* GET /health
Health ==
    /\ main_pc = "loaded"
    /\ response' = health_response(_DATA_CACHE.present, _LAST_UPDATE,
                                   _LAST_FETCH_STATUS, now)
    /\ UNCHANGED <<main_pc, triggers, thread, new_data, fetch_started, cycles,
                   _DATA_CACHE, _LAST_UPDATE, _DATA_IS_FRESH,
                   _LAST_FETCH_STATUS, _LAST_FETCH_ERROR,
                   _LAST_FETCH_DURATION_SECONDS, now, disk>>
    /\ UNCHANGED outside_app

\* api/routes.py get_latest_data (lines 18-50): line 21 imports
\* get_cached_dashboard from data.cache, which defines no such name, so the
\* handler raises ImportError before it reads anything; Flask answers 500.
\* Were the name defined, a missing document would answer 503 with the
\* error body and a stored one 200.
get_latest_data(d) ==
    IF "get_cached_dashboard" \notin cache_module_names
    THEN [endpoint |-> "latest", http |-> 500, state |-> "ImportError",
          age |-> -1]
    ELSE IF get_cached_raises(d)
    THEN [endpoint |-> "latest", http |-> 500, state |-> "Exception",
          age |-> -1]
    ELSE IF ~d.present
    THEN [endpoint |-> "latest", http |-> 503, state |-> "Data not available",
          age |-> -1]
    ELSE [endpoint |-> "latest", http |-> 200, state |-> "ok", age |-> -1]

\* GET /api/v1/latest
GetLatestData ==
    /\ main_pc = "loaded"
    /\ response' = get_latest_data(disk)
    /\ UNCHANGED <<main_pc, triggers, thread, new_data, fetch_started, cycles,
                   _DATA_CACHE, _LAST_UPDATE, _DATA_IS_FRESH,
                   _LAST_FETCH_STATUS, _LAST_FETCH_ERROR,
                   _LAST_FETCH_DURATION_SECONDS, now, disk>>
    /\ UNCHANGED outside_app

\* serve_layout (lines 313-345) from the copies it took under the lock
\* (lines 316-319).  With no Snapshot in memory, line 323 imports
\* get_cached_dashboard outside the try of line 324: the ImportError is not
\* caught and the request fails.  Were the name defined, the lazy load of
\* lines 324-335 would publish the stored document or fall to the skeleton.
layout_response(data, is_fresh) ==
    IF data.present
    THEN [endpoint |-> "layout", http |-> 200,
          state |-> IF is_fresh THEN "dashboard" ELSE "provisional",
          age |-> -1]
    ELSE IF "get_cached_dashboard" \notin cache_module_names
    THEN [endpoint |-> "layout", http |-> 500, state |-> "ImportError",
          age |-> -1]
    ELSE IF get_cached_raises(disk) \/ ~disk.present
    THEN [endpoint |-> "layout", http |-> 200, state |-> "skeleton",
          age |-> -1]
    ELSE [endpoint |-> "layout", http |-> 200, state |-> "dashboard",
          age |-> -1]

\* the lazy load as it would take place were get_cached_dashboard defined
lazy_loads_importable(data) ==
    /\ ~data.present
    /\ ~get_cached_raises(disk)
    /\ disk.present

\* the lazy load of lines 324-335 takes place
lazy_loads(data) ==
    /\ ~data.present
    /\ "get_cached_dashboard" \in cache_module_names
    /\ ~get_cached_raises(disk)
    /\ disk.present

\* the page layout is requested
ServeLayout ==
    /\ main_pc = "loaded"
    /\ response' = layout_response(_DATA_CACHE, _DATA_IS_FRESH)
    /\ IF lazy_loads(_DATA_CACHE)
       THEN /\ _DATA_CACHE' = reconstruct_dashboard_state(disk)
            /\ _LAST_UPDATE' = now
            /\ _DATA_IS_FRESH' = TRUE
       ELSE UNCHANGED <<_DATA_CACHE, _LAST_UPDATE, _DATA_IS_FRESH>>
    /\ UNCHANGED <<main_pc, triggers, thread, new_data, fetch_started, cycles,
                   _LAST_FETCH_STATUS, _LAST_FETCH_ERROR,
                   _LAST_FETCH_DURATION_SECONDS, now, disk>>
    /\ UNCHANGED outside_app

(***************************************************************************)
(* app.py, the with _LOCK blocks statement by statement                    *)
(***************************************************************************)
\* the thread of updater loop i, and the thread serving a request
updater(i) == <<"DataUpdater", i>>
handler(e) == <<e, 0>>

\* a lock that lets a thread in while another is inside
acquire_without_exclusion(t) ==
    lock' = lock \cup {t}

\* with _LOCK: entered when nobody is inside
acquire(t) ==
    /\ lock = {}
    /\ lock' = {t}

\* the with block is left
release(t) ==
    lock' = lock \ {t}

\* what the steps of the updater loop leave alone
loop_frame == <<main_pc, triggers, new_data, now, disk, response, request,
                score_vars, derive_vars, config_weights, agg_vars, file,
                w_pc, w_doc, r_pc, r_ttl, r_result, reads>>

shared == <<_DATA_CACHE, _LAST_UPDATE, _DATA_IS_FRESH, _LAST_FETCH_STATUS,
            _LAST_FETCH_ERROR, _LAST_FETCH_DURATION_SECONDS>>

\* lines 165-168: a cycle begins, fetch_started is taken, the block of line
\* 168 is entered
BeginAcquire(i) ==
    /\ thread[i] = "top"
    /\ cycles < MaxCycles
    /\ acquire(updater(i))
    /\ cycles' = cycles + 1
    /\ fetch_started' = [fetch_started EXCEPT ![i] = now]
    /\ thread' = [thread EXCEPT ![i] = "begin"]
    /\ step' = [step EXCEPT ![i] = 0]
    /\ UNCHANGED <<shared, written_by, loop_frame>>

\* lines 169-170, one assignment at a time
BeginWrite(i) ==
    /\ thread[i] = "begin"
    /\ step[i] < 2
    /\ _LAST_FETCH_STATUS' = IF step[i] = 0 THEN "running"
                             ELSE _LAST_FETCH_STATUS
    /\ _LAST_FETCH_ERROR' = IF step[i] = 1 THEN "None" ELSE _LAST_FETCH_ERROR
    /\ step' = [step EXCEPT ![i] = @ + 1]
    /\ UNCHANGED <<_DATA_CACHE, _LAST_UPDATE, _DATA_IS_FRESH,
                   _LAST_FETCH_DURATION_SECONDS, thread, cycles,
                   fetch_started, lock, written_by, loop_frame>>

\* the block of line 168 is left; lines 171-172 call aggregate_data
BeginRelease(i) ==
    /\ thread[i] = "begin"
    /\ step[i] = 2
    /\ release(updater(i))
    /\ thread' = [thread EXCEPT ![i] = "fetching"]
    /\ UNCHANGED <<shared, step, cycles, fetch_started, written_by,
                   loop_frame>>

\* line 175: aggregate_data has returned, the block is entered
PublishAcquire(i) ==
    /\ thread[i] = "fetched"
    /\ acquire(updater(i))
    /\ thread' = [thread EXCEPT ![i] = "publish"]
    /\ step' = [step EXCEPT ![i] = 0]
    /\ UNCHANGED <<shared, cycles, fetch_started, written_by, loop_frame>>

\* lines 176-181, one assignment at a time
PublishWrite(i) ==
    /\ thread[i] = "publish"
    /\ step[i] < 6
    /\ _DATA_CACHE' = IF step[i] = 0 THEN new_data[i] ELSE _DATA_CACHE
    /\ _LAST_UPDATE' =
          IF step[i] # 1 THEN _LAST_UPDATE
          ELSE IF _extract_last_updated(new_data[i]) # -1
          THEN _extract_last_updated(new_data[i]) ELSE now
    /\ _DATA_IS_FRESH' = IF step[i] = 2 THEN TRUE ELSE _DATA_IS_FRESH
    /\ _LAST_FETCH_STATUS' = IF step[i] = 3 THEN "ok" ELSE _LAST_FETCH_STATUS
    /\ _LAST_FETCH_ERROR' = IF step[i] = 4 THEN "None" ELSE _LAST_FETCH_ERROR
    /\ _LAST_FETCH_DURATION_SECONDS' =
          IF step[i] = 5 THEN now - fetch_started[i]
          ELSE _LAST_FETCH_DURATION_SECONDS
    /\ written_by' =
          IF step[i] = 0 THEN [written_by EXCEPT !.data = cycles]
          ELSE IF step[i] = 1 THEN [written_by EXCEPT !.last_update = cycles]
          ELSE IF step[i] = 2 THEN [written_by EXCEPT !.is_fresh = cycles]
          ELSE written_by
    /\ step' = [step EXCEPT ![i] = @ + 1]
    /\ UNCHANGED <<thread, cycles, fetch_started, lock, loop_frame>>

\* the block of line 175 is left; lines 183-184 log and sleep 300 s
PublishRelease(i) ==
    /\ thread[i] = "publish"
    /\ step[i] = 6
    /\ release(updater(i))
    /\ thread' = [thread EXCEPT ![i] = "sleep300"]
    /\ UNCHANGED <<shared, step, cycles, fetch_started, written_by,
                   loop_frame>>

\* lines 186-188: the exception is caught and logged, the block is entered
ExceptAcquire(i) ==
    /\ thread[i] = "raised"
    /\ acquire(updater(i))
    /\ thread' = [thread EXCEPT ![i] = "except"]
    /\ step' = [step EXCEPT ![i] = 0]
    /\ UNCHANGED <<shared, cycles, fetch_started, written_by, loop_frame>>

\* lines 189-190, one assignment at a time
ExceptWrite(i) ==
    /\ thread[i] = "except"
    /\ step[i] < 2
    /\ _LAST_FETCH_STATUS' = IF step[i] = 0 THEN "failed"
                             ELSE _LAST_FETCH_STATUS
    /\ _LAST_FETCH_ERROR' = IF step[i] = 1 THEN new_data[i].error
                            ELSE _LAST_FETCH_ERROR
    /\ step' = [step EXCEPT ![i] = @ + 1]
    /\ UNCHANGED <<_DATA_CACHE, _LAST_UPDATE, _DATA_IS_FRESH,
                   _LAST_FETCH_DURATION_SECONDS, thread, cycles,
                   fetch_started, lock, written_by, loop_frame>>

\* the block of line 188 is left; line 191 sleeps 60 s
ExceptRelease(i) ==
    /\ thread[i] = "except"
    /\ step[i] = 2
    /\ release(updater(i))
    /\ thread' = [thread EXCEPT ![i] = "sleep60"]
    /\ UNCHANGED <<shared, step, cycles, fetch_started, written_by,
                   loop_frame>>

\* the shared globals a handler copies inside its block, in order: health
\* lines 265-270, serve_layout lines 317-319
CopiedNames ==
    [health |-> <<"data", "is_fresh", "last_update", "fetch_status",
                  "fetch_error", "fetch_duration">>,
     layout |-> <<"data", "is_fresh", "last_update">>]

\* the value of the shared global behind a local
global(name) ==
    [data |-> _DATA_CACHE, is_fresh |-> _DATA_IS_FRESH,
     last_update |-> _LAST_UPDATE, fetch_status |-> _LAST_FETCH_STATUS,
     fetch_error |-> _LAST_FETCH_ERROR,
     fetch_duration |-> _LAST_FETCH_DURATION_SECONDS][name]

\* what the steps of a handler leave alone
handler_frame == <<main_pc, triggers, thread, new_data, fetch_started,
                   cycles, shared, now, disk, step, written_by, score_vars,
                   derive_vars, config_weights, agg_vars, file, w_pc, w_doc, r_pc, r_ttl,
                   r_result, reads>>

\* a request arrives and its handler enters the block (lines 264, 316)
HandlerAcquire(e) ==
    /\ main_pc = "loaded"
    /\ request[e].pc = "idle"
    /\ acquire(handler(e))
    /\ request' = [request EXCEPT ![e] = [NoRequest EXCEPT !.pc = "locked"]]
    /\ UNCHANGED <<response, handler_frame>>

\* one assignment of the block: a shared global is copied into a local
HandlerCopy(e) ==
    /\ request[e].pc = "locked"
    /\ request[e].step < Len(CopiedNames[e])
    /\ LET name == CopiedNames[e][request[e].step + 1]
       IN  request' = [request EXCEPT
                ![e].copies = [@ EXCEPT ![name] = global(name)],
                ![e].seen = IF name \in DOMAIN written_by
                            THEN [@ EXCEPT ![name] = written_by[name]]
                            ELSE @,
                ![e].step = @ + 1]
    /\ UNCHANGED <<lock, response, handler_frame>>

\* the block is left
HandlerRelease(e) ==
    /\ request[e].pc = "locked"
    /\ request[e].step = Len(CopiedNames[e])
    /\ release(handler(e))
    /\ request' = [request EXCEPT ![e].pc = "copied"]
    /\ UNCHANGED <<response, handler_frame>>

\* the rest of the handler works on the copies: health reads the clock's
\* value and the status file, serve_layout builds the page or fails at line
\* 323 (the lazy load behind it is never reached), and the answer is sent
HandlerRespond(e) ==
    /\ request[e].pc = "copied"
    /\ LET c == request[e].copies
       IN  response' =
              IF e = "health"
              THEN health_response(c.data.present, c.last_update,
                                   c.fetch_status, now)
              ELSE layout_response(c.data, c.is_fresh)
    /\ request' = [request EXCEPT ![e] = NoRequest]
    /\ UNCHANGED <<lock, handler_frame>>

(***************************************************************************)
(* data/aggregator.py: port markers and disruptions; get_health_tier       *)
(***************************************************************************)
\* dict.get(key, default)
dict_get(d, key, default) == IF key \in DOMAIN d THEN d[key] ELSE default

\* config.py HEALTH_TIERS, bounds in tenths of a point, first match wins
HEALTH_TIERS ==
    << [min |-> 800, max |-> 1000, label |-> "Healthy"],
       [min |-> 600, max |-> 790, label |-> "Stable"],
       [min |-> 400, max |-> 590, label |-> "Stressed"],
       [min |-> 0, max |-> 390, label |-> "Critical"] >>

\* engine.py get_health_tier (lines 94-112): the first tier with
\* min <= score <= max, else the last tier of the table
get_health_tier(score) ==
    LET hits == {k \in DOMAIN HEALTH_TIERS :
                    HEALTH_TIERS[k].min <= score /\ score <= HEALTH_TIERS[k].max}
    IN  IF hits # {}
        THEN HEALTH_TIERS[CHOOSE k \in hits : \A j \in hits : k <= j]
        ELSE HEALTH_TIERS[Len(HEALTH_TIERS)]

\* data/ports_data.py is imported at line 25: each port has a name, direct
\* keywords and regional keywords.  Two ports stand for the list.
MAJOR_PORTS ==
    << [name |-> "Shanghai", direct_kw |-> {"shanghai"},
        regional_kw |-> {"china"}],
       [name |-> "Rotterdam", direct_kw |-> {"rotterdam"},
        regional_kw |-> {"netherlands"}] >>

\* geopolitical.py _IRRELEVANT_TERMS (lines 63-98), two of its terms
_IRRELEVANT_TERMS == {"bitcoin", "boot"}

\* lines 105-106
_DIRECT_PENALTY == [high |-> 15, medium |-> 8, low |-> 3]
_REGIONAL_PENALTY == [high |-> 8, medium |-> 4, low |-> 2]

\* An alert: sentiment in hundredths; terms are the keywords and terms that
\* occur in the lowered "title body" text (kw in text).
AlertKinds ==
    { [title |-> "strike", sentiment |-> -60, severity |-> "high",
       terms |-> {"shanghai"}, category |-> "geopolitical"],
      [title |-> "storm", sentiment |-> -30, severity |-> "medium",
       terms |-> {"china"}, category |-> "weather"],
      [title |-> "fire", sentiment |-> -40,
       terms |-> {"rotterdam"}, category |-> "energy"],
      [title |-> "game", sentiment |-> -80, severity |-> "high",
       terms |-> {"shanghai", "china", "bitcoin"}, category |-> "geopolitical"],
      [title |-> "record", sentiment |-> 50, severity |-> "high",
       terms |-> {"shanghai"}, category |-> "trucking"],
      [title |-> "delay", sentiment |-> -5, severity |-> "high",
       terms |-> {"shanghai", "china"}, category |-> "supply_chain"],
      [title |-> "unrest", sentiment |-> -70, severity |-> "severe",
       terms |-> {"china", "rotterdam"}],
      [title |-> "closure", sentiment |-> -90, severity |-> "high",
       terms |-> {"shanghai", "china"}, category |-> "tariffs"] }

\* geopolitical.py _is_irrelevant_article (lines 101-103)
_is_irrelevant_article(terms) == terms \cap _IRRELEVANT_TERMS # {}

\* a matcher that looks at the keywords before anything else
match_type_keywords_only(alert, port) ==
    IF alert.terms \cap port.direct_kw # {} THEN "direct"
    ELSE IF alert.terms \cap port.regional_kw # {} THEN "regional"
    ELSE "none"

\* _match_news_to_ports (lines 137-152) for one alert and one port: "none"
\* when the alert is skipped or no keyword occurs
match_type(alert, port) ==
    IF dict_get(alert, "sentiment", 0) >= -5 THEN "none"
    ELSE IF _is_irrelevant_article(alert.terms) THEN "none"
    ELSE IF alert.terms \cap port.direct_kw # {} THEN "direct"
    ELSE IF alert.terms \cap port.regional_kw # {} THEN "regional"
    ELSE "none"

RECURSIVE matched_for(_, _)
\* the list port_news holds for a port: (alert, match type) in alert order
matched_for(alert_list, port) ==
    IF alert_list = <<>> THEN <<>>
    ELSE LET m == match_type(Head(alert_list), port)
             rest == matched_for(Tail(alert_list), port)
         IN  IF m = "none" THEN rest
             ELSE <<[article |-> Head(alert_list), match_type |-> m]>> \o rest

\* _match_news_to_ports (lines 120-154): port name -> its list; a port
\* without a match has no key
_match_news_to_ports(alert_list) ==
    LET names == {MAJOR_PORTS[k].name : k \in DOMAIN MAJOR_PORTS}
        port_of(n) == CHOOSE q \in {MAJOR_PORTS[k] : k \in DOMAIN MAJOR_PORTS} :
                         q.name = n
        hit == {n \in names : matched_for(alert_list, port_of(n)) # <<>>}
    IN  [n \in hit |-> matched_for(alert_list, port_of(n))]

\* lines 218-229: the penalty of one matched article
article_penalty(m) ==
    LET severity == dict_get(m.article, "severity", "low")
        penalty_table == IF m.match_type = "direct" THEN _DIRECT_PENALTY
                         ELSE _REGIONAL_PENALTY
    IN  dict_get(penalty_table, severity, 2)

RECURSIVE penalty_sum(_)
penalty_sum(matched) ==
    IF matched = <<>> THEN 0
    ELSE article_penalty(Head(matched)) + penalty_sum(Tail(matched))

Min(a, b) == IF a <= b THEN a ELSE b
Max(a, b) == IF a >= b THEN a ELSE b

\* the penalty of a port without the minimum of line 238
news_penalty_uncapped(matched) == penalty_sum(matched)

\* lines 214-238: the penalties of the matched articles, at most 40
news_penalty(matched) == Min(penalty_sum(matched), 40)

\* a weight in hundredths (the weights of config.py are whole hundredths);
\* only the ratio of a weight to weight_sum enters the macro score
hundredths(w) == w \div (ONE \div 100)

\* lines 185-199: the non-weather categories, their configured weights, and
\* the sum of score times weight; the macro score is macro_sum / weight_sum
non_weather_cats ==
    {"energy", "supply_chain", "tariffs", "trucking", "geopolitical"}
        \cap DOMAIN config_weights

weight_sum ==
    LET total == SumOver([c \in non_weather_cats |->
                             hundredths(config_weights[c])],
                         non_weather_cats)
    IN  IF total = 0 THEN 100 ELSE total

macro_sum(scores) ==
    SumOver([c \in non_weather_cats |->
                dict_get(scores, c, 500) * hundredths(config_weights[c])],
            non_weather_cats)

\* a composite that weighs the two halves equally
composite_numerator_even(local_weather, scores) ==
    5 * local_weather * weight_sum + 5 * macro_sum(scores)

\* line 211: local * 0.60 + global_macro * 0.40, as a numerator in tenths
\* over the denominator 10 * weight_sum
composite_numerator(local_weather, scores) ==
    6 * local_weather * weight_sum + 4 * macro_sum(scores)

\* round(x, 1) of the non-negative x = n / d tenths: to the nearest tenth,
\* a tie to the even one
round1(n, d) ==
    LET q == n \div d
        r == n % d
    IN  IF 2 * r < d THEN q
        ELSE IF 2 * r > d THEN q + 1
        ELSE IF q % 2 = 0 THEN q ELSE q + 1

\* lines 204-241 for one port: local score (75.0 when the batch has none),
\* composite, penalty, clamp, round
port_score(port, scores, weather, port_news) ==
    LET local_weather == dict_get(weather, port.name, 750)
        d == 10 * weight_sum
        composite_n == composite_numerator(local_weather, scores)
        news == news_penalty(dict_get(port_news, port.name, <<>>))
    IN  round1(Max(0, Min(1000 * d, composite_n - 10 * news * d)), d)

\* _derive_map_markers (lines 157-298): a marker for every port, with the
\* score and the tier label of its tooltip
_derive_map_markers(scores, alert_list, weather) ==
    LET port_news == _match_news_to_ports(alert_list)
    IN  [k \in DOMAIN MAJOR_PORTS |->
            LET score == port_score(MAJOR_PORTS[k], scores, weather,
                                    port_news)
            IN  [name |-> MAJOR_PORTS[k].name, score |-> score,
                 tier |-> get_health_tier(score).label]]

RECURSIVE category_events(_, _)
\* lines 496-507: one event for each category under 70, in dict order
category_events(order, scores) ==
    IF order = <<>> THEN <<>>
    ELSE LET cat == Head(order)
             rest == category_events(Tail(order), scores)
         IN  IF scores[cat] < 700
             THEN <<[source |-> "category",
                     event |-> <<cat, IF scores[cat] < 400 THEN "Critical"
                                      ELSE "Stressed">>,
                     categories |-> <<cat>>,
                     started |-> "Ongoing",
                     status |-> IF scores[cat] < 500 THEN "Active"
                                ELSE "Monitoring"]>> \o rest
             ELSE rest

RECURSIVE alert_events(_)
\* lines 510-522: one event for each alert whose severity is "high"
alert_events(alert_list) ==
    IF alert_list = <<>> THEN <<>>
    ELSE LET alert == Head(alert_list)
             rest == alert_events(Tail(alert_list))
         IN  IF dict_get(alert, "severity", "None") = "high"
             THEN <<[source |-> "alert",
                     event |-> <<alert.title, "news">>,
                     categories |-> <<dict_get(alert, "category",
                                               "geopolitical")>>,
                     started |-> "Recent",
                     status |-> "Active"]>> \o rest
             ELSE rest

\* a disruption list that drops alert events about a listed category
derive_disruptions_deduplicated(order, scores, alert_list) ==
    LET first == category_events(order, scores)
        listed == {first[k].categories : k \in DOMAIN first}
    IN  first \o SelectSeq(alert_events(alert_list),
                           LAMBDA e : e.categories \notin listed)

\* lines 493-522
derive_disruptions(order, scores, alert_list) ==
    category_events(order, scores) \o alert_events(alert_list)

MaxAlerts == 3

\* the alert lists of a cycle
AlertLists == UNION { [1..n -> AlertKinds] : n \in 0..MaxAlerts }

\* the scores a cycle may end with, every category filled
ScoreVectors ==
    { [c \in Categories |-> 700],
      [c \in Categories |-> 0],
      [weather |-> 350, supply_chain |-> 699, energy |-> 700,
       tariffs |-> 395, trucking |-> 1000, geopolitical |-> 595] }

\* orders in which the categories entered current_scores
ScoreOrders ==
    { <<"weather", "supply_chain", "energy", "tariffs", "trucking",
        "geopolitical">>,
      <<"geopolitical", "tariffs", "weather", "energy", "trucking",
        "supply_chain">> }

\* what fetch_batch_port_weather returns: a score per port, a port may be
\* missing
BatchWeathers ==
    { [Shanghai |-> 900, Rotterdam |-> 1000],
      [Shanghai |-> 333],
      [Shanghai |-> 0, Rotterdam |-> 795] }

NoTier == [min |-> -1, max |-> -1, label |-> "none"]

TierIdle ==
    /\ tier_score = 0
    /\ tier_result = NoTier

MarkersIdle ==
    /\ derive_pc = "idle"
    /\ scores_in = <<>>
    /\ scores_order = <<>>
    /\ alerts_in = <<>>
    /\ batch_weather = <<>>
    /\ map_markers = <<>>
    /\ disruptions = <<>>

DeriveIdle == MarkersIdle /\ TierIdle

outside_derive == <<score_vars, config_weights, disk, agg_vars, cache_vars,
                    app_vars, lock_vars>>

\* aggregate_data line 485: the markers of the cycle
DeriveMapMarkers ==
    /\ derive_pc = "markers"
    /\ map_markers' = _derive_map_markers(scores_in, alerts_in, batch_weather)
    /\ derive_pc' = "disruptions"
    /\ UNCHANGED <<scores_in, scores_order, alerts_in, batch_weather,
                   disruptions, tier_score, tier_result, outside_derive>>

\* aggregate_data lines 493-522: the disruption list of the cycle
DeriveDisruptions ==
    /\ derive_pc = "disruptions"
    /\ disruptions' = derive_disruptions(scores_order, scores_in, alerts_in)
    /\ derive_pc' = "returned"
    /\ UNCHANGED <<scores_in, scores_order, alerts_in, batch_weather,
                   map_markers, tier_score, tier_result, outside_derive>>

\* get_health_tier is called
CallGetHealthTier ==
    /\ tier_result = NoTier
    /\ tier_result' = get_health_tier(tier_score)
    /\ UNCHANGED <<derive_pc, scores_in, scores_order, alerts_in,
                   batch_weather, map_markers, disruptions, tier_score,
                   outside_derive>>

(***************************************************************************)
(* Specifications                                                          *)
(***************************************************************************)
InitScore ==
    /\ ScoreInit
    /\ config_weights = CATEGORY_WEIGHTS
    /\ disk = NoDoc
    /\ AggIdle
    /\ CacheIdle
    /\ AppIdle
    /\ DeriveIdle

NextScore == CallComposite

SpecScore == InitScore /\ [][NextScore]_vars

InitAgg ==
    /\ ScoreIdle
    /\ config_weights = CATEGORY_WEIGHTS
    /\ disk = NoDoc
    /\ AggInit
    /\ CacheIdle
    /\ AppIdle
    /\ DeriveIdle

NextAgg ==
    \/ SubmitTasks
    \/ \E p \in Providers : YieldCompleted(p)
    \/ CollectDone
    \/ BatchTimeout
    \/ WaitNews
    \/ WaitMarket
    \/ WaitPortSummaries
    \/ AbandonedTasksReturn
    \/ ExecutorShutdown
    \/ PostProcess
    \/ Midnight

SpecAgg == InitAgg /\ [][NextAgg]_vars

InitCache ==
    /\ ScoreIdle
    /\ config_weights = CATEGORY_WEIGHTS
    /\ disk = NoDoc
    /\ AggIdle
    /\ CacheInit
    /\ AppIdle
    /\ DeriveIdle

NextCache ==
    \/ Tick
    \/ SetCachedOpen
    \/ SetCachedWrite
    \/ GetCachedExists
    \/ GetCachedStat
    \/ GetCachedRead

SpecCache == InitCache /\ [][NextCache]_vars

\* the weights the process may have been configured with: the shipped ones,
\* or a set that sums to 0.9
ConfiguredWeights ==
    {CATEGORY_WEIGHTS, [CATEGORY_WEIGHTS EXCEPT !.weather = 0]}

InitApp ==
    /\ ScoreIdle
    /\ config_weights \in ConfiguredWeights
    /\ disk \in {NoDoc} \cup {StoredDoc(keys) : keys \in StoredKeySets}
                \cup CorruptDocs
    /\ AggIdle
    /\ CacheIdle
    /\ AppInit
    /\ DeriveIdle

NextApp ==
    \/ StartupLoad
    \/ StartBackgroundThread
    \/ \E i \in Threads : DelayedStart(i)
    \/ \E i \in Threads : LoopBegin(i)
    \/ \E i \in Threads : AggregateReturns(i)
    \/ \E i \in Threads : AggregateRaises(i)
    \/ \E i \in Threads : Publish(i)
    \/ \E i \in Threads : CycleFailed(i)
    \/ \E i \in Threads : SleepOver(i)

Spec == InitApp /\ [][NextApp]_vars

\* The process as app.py runs it, started on any stored document, with the
\* requests of its consumers.
NextRequests ==
    \/ StartupLoad
    \/ ModuleStartsUpdater
    \/ \E i \in Threads : DelayedStart(i)
    \/ \E i \in Threads : LoopBegin(i)
    \/ \E i \in Threads : AggregateReturns(i)
    \/ \E i \in Threads : AggregateRaises(i)
    \/ \E i \in Threads : Publish(i)
    \/ \E i \in Threads : CycleFailed(i)
    \/ \E i \in Threads : SleepOver(i)
    \/ Health
    \/ GetLatestData
    \/ ServeLayout

SpecRequests == InitApp /\ [][NextRequests]_vars

\* The process as app.py runs it: start_background_thread is called once, by
\* the module itself (line 627 or line 634); the clock runs.
InitProcess ==
    /\ ScoreIdle
    /\ config_weights \in ConfiguredWeights
    /\ disk \in {NoDoc, StoredDoc(Categories)}
    /\ AggIdle
    /\ CacheIdle
    /\ AppInit
    /\ DeriveIdle

NextProcess ==
    \/ StartupLoad
    \/ ModuleStartsUpdater
    \/ \E i \in Threads : DelayedStart(i)
    \/ \E i \in Threads : LoopBegin(i)
    \/ \E i \in Threads : AggregateReturns(i)
    \/ \E i \in Threads : AggregateRaises(i)
    \/ \E i \in Threads : Publish(i)
    \/ \E i \in Threads : CycleFailed(i)
    \/ \E i \in Threads : SleepOver(i)
    \/ Tick
    \/ Health
    \/ GetLatestData
    \/ ServeLayout

SpecProcess == InitProcess /\ [][NextProcess]_vars

\* The updater loop of that process on its own, scheduled fairly: a thread
\* that can take its next step takes it, a sleep returns.  No fairness is
\* put on aggregate_data: whether it returns is the aggregator's matter.
NextLoop ==
    \/ StartupLoad
    \/ ModuleStartsUpdater
    \/ \E i \in Threads : DelayedStart(i)
    \/ \E i \in Threads : LoopBegin(i)
    \/ \E i \in Threads : AggregateReturns(i)
    \/ \E i \in Threads : AggregateRaises(i)
    \/ \E i \in Threads : Publish(i)
    \/ \E i \in Threads : CycleFailed(i)
    \/ \E i \in Threads : SleepOver(i)

\* Post-processing of a cycle: the markers and the disruption list derived
\* from the filled scores, the alerts and the batch of local weather.
InitDerive ==
    /\ ScoreIdle
    /\ config_weights = CATEGORY_WEIGHTS
    /\ disk = NoDoc
    /\ AggIdle
    /\ CacheIdle
    /\ AppIdle
    /\ TierIdle
    /\ derive_pc = "markers"
    /\ scores_in \in ScoreVectors
    /\ scores_order \in ScoreOrders
    /\ alerts_in \in AlertLists
    /\ batch_weather \in BatchWeathers
    /\ map_markers = <<>>
    /\ disruptions = <<>>

NextDerive ==
    \/ DeriveMapMarkers
    \/ DeriveDisruptions

SpecDerive == InitDerive /\ [][NextDerive]_vars

\* get_health_tier on every score from 0.0 to 100.0 in steps of 0.1
InitTier ==
    /\ ScoreIdle
    /\ config_weights = CATEGORY_WEIGHTS
    /\ disk = NoDoc
    /\ AggIdle
    /\ CacheIdle
    /\ AppIdle
    /\ MarkersIdle
    /\ tier_score \in 0..1000
    /\ tier_result = NoTier

NextTier == CallGetHealthTier

SpecTier == InitTier /\ [][NextTier]_vars

\* The process with its lock blocks taken statement by statement: the
\* updater loop against one request per endpoint.
NextLock ==
    \/ StartupLoad
    \/ ModuleStartsUpdater
    \/ \E i \in Threads : DelayedStart(i)
    \/ \E i \in Threads : BeginAcquire(i)
    \/ \E i \in Threads : BeginWrite(i)
    \/ \E i \in Threads : BeginRelease(i)
    \/ \E i \in Threads : AggregateReturns(i)
    \/ \E i \in Threads : AggregateRaises(i)
    \/ \E i \in Threads : PublishAcquire(i)
    \/ \E i \in Threads : PublishWrite(i)
    \/ \E i \in Threads : PublishRelease(i)
    \/ \E i \in Threads : ExceptAcquire(i)
    \/ \E i \in Threads : ExceptWrite(i)
    \/ \E i \in Threads : ExceptRelease(i)
    \/ \E i \in Threads : SleepOver(i)
    \/ \E e \in Endpoints : HandlerAcquire(e)
    \/ \E e \in Endpoints : HandlerCopy(e)
    \/ \E e \in Endpoints : HandlerRelease(e)
    \/ \E e \in Endpoints : HandlerRespond(e)

\* the import of app.py begins with the weights of config.py and no
\* stored document
InitLock ==
    /\ ScoreIdle
    /\ config_weights = CATEGORY_WEIGHTS
    /\ disk = NoDoc
    /\ AggIdle
    /\ CacheIdle
    /\ AppInit
    /\ DeriveIdle

SpecLock == InitLock /\ [][NextLock]_vars

SpecLoopFair ==
    /\ InitProcess
    /\ [][NextLoop]_vars
    /\ \A i \in Threads :
          /\ WF_vars(LoopBegin(i))
          /\ WF_vars(Publish(i))
          /\ WF_vars(CycleFailed(i))
          /\ WF_vars(SleepOver(i))

InitScoreAgg == InitScore \/ InitAgg

NextScoreAgg == NextScore \/ NextAgg

SpecScoreAgg == InitScoreAgg /\ [][NextScoreAgg]_vars

(***************************************************************************)
(* Claims                                                                  *)
(***************************************************************************)

\* C1: when aggregate_data has run, whatever each provider did (returned,
\* raised in fetch_current, raised in fetch_history, returned no history,
\* missed the batch deadline), it returned a result, and the key set of
\* current_scores and of category_history in it -- and in the stored
\* document, when it was written -- is exactly the configured category set.
C1_SnapshotFullyKeyed ==
    /\ agg_pc # "raised"
    /\ agg_pc = "done" =>
          /\ agg_result.present
          /\ DOMAIN agg_result.current_scores = Categories
          /\ DOMAIN agg_result.category_history = Categories
          /\ disk.present =>
                /\ DOMAIN disk.current_scores = Categories
                /\ DOMAIN disk.category_history = Categories

\* C1 witness: a finished cycle in which one provider missed the deadline,
\* one raised in fetch_current and one raised in fetch_history.
C1_Witness ==
    /\ agg_pc = "done"
    /\ abandoned \cap Providers # {}
    /\ \E p \in DOMAIN observed : observed[p].cur = "raise"
    /\ \E p \in DOMAIN observed :
          observed[p].cur = "ok" /\ observed[p].hist = "raise"

\* C2 (as claimed): if exactly one provider raised in fetch_current and every
\* other provider returned normally, the finished cycle has that category at
\* 50 with an entry in provider_errors, every other category has its own
\* score, its own aligned history and no error, and the composite was
\* computed (no exception reached compute_composite_index).
C2_OneProviderRaises ==
    agg_pc = "done" =>
        \A p \in Providers :
            ( /\ DOMAIN observed = Providers
              /\ observed[p].cur = "raise"
              /\ \A q \in Providers \ {p} : observed[q] = OutcomeOk )
            => /\ agg_result.current_scores[p] = NEUTRAL_SCORE
               /\ p \in DOMAIN agg_result.provider_errors
               /\ composite.kind = "value"
               /\ \A q \in Providers \ {p} :
                     /\ agg_result.current_scores[q] = ProviderScore[q]
                     /\ agg_result.category_history[q] =
                            align_history(ProviderHistory[q],
                                          ProviderScore[q])
                     /\ q \notin DOMAIN agg_result.provider_errors

\* C3 (as claimed): a task whose deadline expired is not awaited any further,
\* so the orchestrator is never blocked on an abandoned task.
C3_AbandonedNotAwaited == AwaitedTasks \cap abandoned = {}

C8_MissingCategoryRaises ==
    /\ score_pc = "returned" =>
          LET w == weights_or_default(in_weights)
          IN  (DOMAIN w \ DOMAIN in_scores # {})
              => /\ score_result.kind # "value"
                 /\ isclose_one(SumOver(w, DOMAIN w))
                       => score_result.kind = "ValueError_missing"
    /\ agg_pc \in {"done", "raised"} =>
          /\ composite.kind # "ValueError_missing"
          /\ DOMAIN config_weights \subseteq DOMAIN current_scores

\* C8 witness: a call with valid weights, one weighted key absent and an
\* out-of-range score present raised the missing-category exception.
C8_Witness ==
    /\ score_pc = "returned"
    /\ in_weights = [energy |-> 500000, weather |-> 500000]
    /\ DOMAIN in_scores = {"energy", "chokepoint"}
    /\ in_scores["energy"] = 1200
    /\ score_result = Raised("ValueError_missing")

\* C9 (as claimed): every call whose weights in effect sum to a value
\* differing from 1.0 by more than 0.01 fails: it returns no value.
C9_Original ==
    score_pc = "returned" =>
        LET w == weights_or_default(in_weights)
        IN  Abs(SumOver(w, DOMAIN w) - ONE) > ATOL
            => score_result.kind # "value"

\* C9 (amended): every call whose weights in effect sum to a value differing
\* from 1.0 by more than 0.01001 (np.isclose: atol 0.01 plus the default
\* rtol 1e-05 times 1.0) raises the weight-sum exception, whatever the
\* scores, also when weighted keys are absent from them (the check comes
\* before any score is read); sums within that tolerance never raise it.
C9_WeightSumChecked ==
    score_pc = "returned" =>
        LET w == weights_or_default(in_weights)
        IN  /\ Abs(SumOver(w, DOMAIN w) - ONE) > ATOL + RTOL_TIMES_ONE
               => score_result = Raised("ValueError_weights")
            /\ Abs(SumOver(w, DOMAIN w) - ONE) <= ATOL + RTOL_TIMES_ONE
               => score_result.kind # "ValueError_weights"

\* C9 witness: weights summing to 0.9 with weighted keys absent from the
\* scores raised the weight-sum exception.
C9_Witness ==
    /\ score_pc = "returned"
    /\ in_weights = [CATEGORY_WEIGHTS EXCEPT !.weather = 0]
    /\ DOMAIN in_scores = {"weather"}
    /\ score_result = Raised("ValueError_weights")

C4_SingleUpdater ==
    /\ Cardinality(DataUpdaters) <= 1
    /\ Cardinality({i \in Threads : thread[i] = "fetching"}) <= 1

WeightsMisconfigured ==
    ~isclose_one(SumOver(config_weights, DOMAIN config_weights))

C12_RoundTrip ==
    (agg_pc = "done" /\ disk.present) =>
        LET back == reconstruct_dashboard_state(disk)
        IN  /\ back.current_scores = agg_result.current_scores
            /\ back.dates = agg_result.dates
            /\ DOMAIN back.category_history = DOMAIN agg_result.category_history
            /\ \A c \in DOMAIN back.category_history :
                  /\ "values" \in DOMAIN back.category_history[c]
                  /\ back.category_history[c].index = back.dates
                  /\ back.category_history[c].values =
                        agg_result.category_history[c].values

\* C12 witness: a stored result with an aligned provider history, a
\* fallback series of a provider that raised and one of a provider that
\* missed the deadline.
C12_Witness ==
    /\ agg_pc = "done"
    /\ disk.present
    /\ disk = set_cached_dashboard(agg_result)
    /\ abandoned \cap Providers # {}
    /\ \E p \in DOMAIN observed : observed[p].hist = "raise"
    /\ \E p \in DOMAIN observed : observed[p] = OutcomeOk

FlatValues(v) == [i \in 1..HISTORY_DAYS |-> v]

AuxFailed == {t \in AuxTasks : task[t] = "raised" \/ t \in abandoned}

C16_HistoryOnCycleDates ==
    agg_pc = "done" =>
        \A c \in Categories :
            LET h == agg_result.category_history[c]
            IN  /\ Len(h.values) = HISTORY_DAYS
                /\ h.index = agg_result.dates
                /\ \A i \in 1..(Len(h.index) - 1) : h.index[i] < h.index[i + 1]
                /\ h.values[HISTORY_DAYS] = agg_result.current_scores[c]

\* the positions of update_data_loop between the start of a cycle and the
\* lock block that ends it
InCycle == {"fetching", "fetched", "raised"}

\* C17: the fetch status starts as "starting" (Cold) and changes only by a
\* step of the updater loop, and only "starting" -> "running", "running" ->
\* "ok", "running" -> "failed", "ok" -> "running", "failed" -> "running"; it
\* is "running" in every state of a cycle.
C17_StatusTransitions ==
    [][ /\ _LAST_FETCH_STATUS' # _LAST_FETCH_STATUS =>
              /\ <<_LAST_FETCH_STATUS, _LAST_FETCH_STATUS'>> \in
                     { <<"starting", "running">>, <<"running", "ok">>,
                       <<"running", "failed">>, <<"ok", "running">>,
                       <<"failed", "running">> }
              /\ \E i \in Threads :
                    /\ thread[i] \in {"top", "fetched", "raised"}
                    /\ thread'[i] # thread[i]
        /\ \A i \in Threads :
              thread'[i] \in InCycle => _LAST_FETCH_STATUS' = "running"
        /\ \A i \in Threads :
              (thread[i] \in InCycle /\ thread'[i] \notin InCycle)
                 => _LAST_FETCH_STATUS' \in {"ok", "failed"}
      ]_vars

\* C17 witness: after a published Snapshot (Fresh) a later cycle failed
\* (Degraded) and the next one is running (Fetching).
C17_Witness ==
    /\ _DATA_CACHE.present
    /\ _LAST_FETCH_ERROR = "None"
    /\ _LAST_FETCH_STATUS = "running"
    /\ cycles >= 3
    /\ \E i \in Threads : thread[i] = "fetching"

\* C18: the updater loop never leaves its loop positions; after a published
\* cycle it sleeps (300 s) and after a failed one it sleeps (60 s), and from
\* either sleep it goes to the top of the loop only; a cycle begins only
\* when no cycle of the loop is under way; and every failed or published
\* cycle is eventually followed by the beginning of the next one (as long as
\* the model's bound on cycles allows one).
C18_LoopRetries ==
    /\ [][ \A i \in Threads :
              /\ thread[i] = "fetched" /\ thread'[i] # thread[i]
                    => thread'[i] = "sleep300"
              /\ thread[i] = "raised" /\ thread'[i] # thread[i]
                    => thread'[i] = "sleep60"
              /\ thread[i] \in {"sleep300", "sleep60"} /\ thread'[i] # thread[i]
                    => thread'[i] = "top"
              /\ thread[i] \notin {"none", "delayed"}
                    => thread'[i] \in InCycle \cup {"top", "sleep300", "sleep60"}
              /\ cycles' # cycles
                    => \A j \in Threads : thread[j] \notin InCycle
         ]_vars
    /\ \A i \in Threads :
          (thread[i] \in {"raised", "fetched"} /\ cycles < MaxCycles)
             ~> (thread[i] = "fetching")

\* C18 witness: a cycle failed, the loop slept and began the next cycle.
C18_Witness ==
    /\ _LAST_FETCH_STATUS = "running"
    /\ _LAST_FETCH_ERROR = "None"
    /\ ~_DATA_CACHE.present
    /\ cycles = 2
    /\ \E i \in Threads : thread[i] = "fetching" /\ ~new_data[i].present
                          /\ "error" \in DOMAIN new_data[i]

\* the explicit "not yet available" answers of the three read paths
NotYetAvailable ==
    { r \in { response } :
         \/ r.endpoint = "latest" /\ r.http = 503
                                  /\ r.state = "Data not available"
         \/ r.endpoint = "health" /\ r.http = 503 /\ r.state = "warming_up"
         \/ r.endpoint = "layout" /\ r.http = 200 /\ r.state = "skeleton" }

\* C20: while no Snapshot is held (Cold), whatever a consumer was last
\* answered is an explicit "not yet available" signal: GET /api/v1/latest
\* answered 503 with the error body, the health probe 503 warming_up, the
\* page layout the skeleton; no read path raised.
C20_ColdIsSignalled ==
    (~_DATA_CACHE.present /\ response # NoResponse)
       => response \in NotYetAvailable

\* a thread has been started by start_background_thread
ThreadStarted == \E i \in Threads : thread[i] # "none"

\* the three copies a handler holds belong to one publication
SamePublication(r) ==
    /\ r.seen.data = r.seen.is_fresh
    /\ r.seen.data = r.seen.last_update
    /\ r.copies.data.present <=> r.copies.is_fresh
    /\ r.copies.data.present <=> r.copies.last_update # -1

\* C19: once the background thread has been started, a shared global
\* changes only in a step of a thread that is inside _LOCK, a handler's
\* local takes the value of a shared global only while the handler is
\* inside _LOCK, no thread is inside _LOCK while aggregate_data runs or
\* while a handler works on its copies (status file, page, answer), and the
\* Snapshot, freshness flag and last-update time a handler has copied were
\* assigned by one and the same publication.
C19_LockDiscipline ==
    /\ [][ ThreadStarted =>
             /\ shared' # shared =>
                   \E i \in Threads : /\ updater(i) \in lock
                                      /\ updater(i) \in lock'
             /\ \A e \in Endpoints :
                   (request'[e].copies # request[e].copies
                       /\ request'[e].pc # "idle")
                      => handler(e) \in lock /\ handler(e) \in lock'
         ]_vars
    /\ [] ( /\ \A i \in Threads :
                 updater(i) \in lock
                    => thread[i] \in {"begin", "publish", "except"}
            /\ \A e \in Endpoints :
                 handler(e) \in lock => request[e].pc = "locked"
            /\ \A e \in {"health", "layout"} :
                 request[e].pc = "copied" => SamePublication(request[e]) )

\* C19 witness: a handler holds the copies of one publication while the
\* updater loop is in the middle of assigning the next one.
C19_Witness ==
    \E e \in {"health", "layout"}, i \in Threads :
       /\ request[e].pc = "copied"
       /\ request[e].copies.data.present
       /\ request[e].seen.data >= 1
       /\ thread[i] = "publish"
       /\ step[i] >= 1
       /\ written_by.data > request[e].seen.data

PortIndex == DOMAIN MAJOR_PORTS
OtherCategories == Categories \ {"weather"}
OtherWeights ==
    SumOver([c \in OtherCategories |-> CATEGORY_WEIGHTS[c] \div 10000],
            OtherCategories)
LocalOf(k) == dict_get(batch_weather, MAJOR_PORTS[k].name, 750)
CompositeOf(k) ==
    6 * LocalOf(k) * OtherWeights
      + 4 * SumOver([c \in OtherCategories |->
                        scores_in[c] * (CATEGORY_WEIGHTS[c] \div 10000)],
               OtherCategories)
PenaltyOf(k) ==
    news_penalty(matched_for(alerts_in, MAJOR_PORTS[k]))
Clamped(n, d) == Max(0, Min(1000 * d, n))

\* C22 as stated: the final score of every marker equals the composite minus
\* the news penalty, clamped to [0,100].
C22_ExactScore ==
    derive_pc # "markers" =>
       \A k \in PortIndex :
          map_markers[k].score * 10 * OtherWeights =
             Clamped(CompositeOf(k) - PenaltyOf(k) * 100 * OtherWeights,
                     10 * OtherWeights)

\* C22: for every port the marker score is the composite 0.6 * local + 0.4 *
\* global (global: the categories other than weather, weights renormalized
\* to 1.0) minus the news penalty, clamped to [0,100] and then rounded to
\* one decimal: it is a whole number of tenths within 0.05 of the clamped
\* value.  Local 90, global 70 and one direct high-severity negative alert
\* give 67.0.
C22_MarkerScore ==
    derive_pc # "markers" =>
       /\ \A k \in PortIndex :
             LET d == 10 * OtherWeights
                 exact == Clamped(CompositeOf(k) - PenaltyOf(k) * 10 * d, d)
             IN  2 * Abs(map_markers[k].score * d - exact) <= d
       /\ ( /\ scores_in = [c \in Categories |-> 700]
            /\ LocalOf(1) = 900
            /\ Len(alerts_in) = 1
            /\ alerts_in[1].title = "strike" )
          => map_markers[1].score = 670

\* C22 witness: the scenario of the claim has been computed.
C22_Witness ==
    /\ derive_pc = "returned"
    /\ scores_in = [c \in Categories |-> 700]
    /\ LocalOf(1) = 900
    /\ alerts_in = <<CHOOSE a \in AlertKinds : a.title = "strike">>
    /\ map_markers[1].score = 670

\* C23 as stated: the penalty of every port is at most 40, and the final
\* score is in [0,100] and not lower than max(0, composite - 40).
C23_NotBelowCompositeLess40 ==
    derive_pc # "markers" =>
       \A k \in PortIndex :
          /\ PenaltyOf(k) <= 40
          /\ map_markers[k].score \in 0..1000
          /\ map_markers[k].score * 10 * OtherWeights >=
                Max(0, CompositeOf(k) - 4000 * OtherWeights)

\* C23: for every port and every alert list the penalty subtracted is at
\* most 40 points; the final score is in [0,100] and not lower than
\* max(0, composite - 40) rounded to one decimal.
C23_PenaltyCapped ==
    derive_pc # "markers" =>
       \A k \in PortIndex :
          /\ PenaltyOf(k) <= 40
          /\ map_markers[k].score \in 0..1000
          /\ map_markers[k].score >=
                round1(Clamped(CompositeOf(k) - 4000 * OtherWeights,
                               10 * OtherWeights), 10 * OtherWeights)

\* C23 witness: the penalties matched to a port add up to more than 40 and
\* its marker has been computed.
C23_Witness ==
    /\ derive_pc = "returned"
    /\ \E k \in PortIndex :
          /\ penalty_sum(matched_for(alerts_in, MAJOR_PORTS[k])) > 40
          /\ map_markers[k].score > 0

\* an alert that must not count: an irrelevant topic, or a sentiment that is
\* not negative
MustNotCount(alert) ==
    \/ alert.terms \cap _IRRELEVANT_TERMS # {}
    \/ alert.sentiment >= 0

\* C24: an alert whose text contains an irrelevant term, and an alert whose
\* sentiment is not negative, is in no port's list of matched articles,
\* whatever its severity and its keywords; the markers are those of the
\* alert list without these alerts.
C24_IrrelevantNeverMatched ==
    derive_pc # "markers" =>
       /\ \A k \in PortIndex :
             LET matched == matched_for(alerts_in, MAJOR_PORTS[k])
             IN  \A n \in DOMAIN matched : ~MustNotCount(matched[n].article)
       /\ map_markers =
             _derive_map_markers(
                scores_in,
                SelectSeq(alerts_in, LAMBDA a : ~MustNotCount(a)),
                batch_weather)

\* C24 witness: the alerts name a port directly, are of high severity, and
\* all are irrelevant or not negative; markers were computed without a
\* match.
C24_Witness ==
    /\ derive_pc = "returned"
    /\ Len(alerts_in) >= 2
    /\ \E n \in DOMAIN alerts_in : alerts_in[n].title = "game"
    /\ \E n \in DOMAIN alerts_in : alerts_in[n].title = "record"
    /\ \A n \in DOMAIN alerts_in : MustNotCount(alerts_in[n])
    /\ DOMAIN _match_news_to_ports(alerts_in) = {}

\* the categories under the threshold and the alerts of high severity
LowCategories == {c \in Categories : scores_in[c] < 700}
HighAlerts ==
    SelectSeq(alerts_in, LAMBDA a : dict_get(a, "severity", "None") = "high")

\* C25: the disruption list is one event for each category whose score is
\* under 70, tagged with that category, followed by one event for each
\* alert of severity high, in alert order; nothing else is in it and
\* nothing is merged.
C25_DisruptionsConcatenated ==
    derive_pc = "returned" =>
       LET n == Cardinality(LowCategories)
       IN  /\ Len(disruptions) = n + Len(HighAlerts)
           /\ \A k \in 1..n :
                 /\ disruptions[k].source = "category"
                 /\ Len(disruptions[k].categories) = 1
           /\ {disruptions[k].categories[1] : k \in 1..n} = LowCategories
           /\ \A k \in 1..Len(HighAlerts) :
                 /\ disruptions[n + k].source = "alert"
                 /\ disruptions[n + k].event[1] = HighAlerts[k].title

\* C25 witness: a category under the threshold and a high-severity alert of
\* that same category are both in the list.
C25_Witness ==
    /\ derive_pc = "returned"
    /\ scores_in["tariffs"] < 700
    /\ scores_in["energy"] = 700
    /\ \E k \in DOMAIN alerts_in : alerts_in[k].title = "closure"
    /\ \E j, k \in DOMAIN disruptions :
          /\ disruptions[j].source = "category"
          /\ disruptions[k].source = "alert"
          /\ disruptions[j].categories = disruptions[k].categories

\* C26: get_health_tier returns a tier whose range contains the score, and
\* no lower score gets a better tier.
C26_TierContainsScore ==
    tier_result # NoTier =>
       /\ tier_result.min <= tier_score
       /\ tier_score <= tier_result.max
       /\ \A lower \in 0..tier_score :
             get_health_tier(lower).min <= tier_result.min

\* C27: every call of get_cached returns the document most recently written
\* for the key when the key has been written and the time since that write
\* is at most ttl, and None otherwise; it neither raises nor returns an
\* older document.
C27_FreshValueOrNone ==
    [][ reads' = reads + 1 =>
           r_result' = IF file.exists /\ now - file.mtime <= r_ttl'
                       THEN [kind |-> "doc", doc |-> w_doc]
                       ELSE ReturnedNone
      ]_vars

FailingStep(i) ==
    \/ thread[i] = "fetching" /\ thread'[i] = "raised"
    \/ thread[i] = "raised" /\ thread'[i] = "sleep60"

\* C29: the steps of a failing cycle leave the Snapshot, the last-update
\* time, the freshness flag and the last duration as they were, and touch
\* only the fetch status and the last error; and no step of the process
\* replaces a Snapshot by None.
C29_FailureKeepsSnapshot ==
    [][ /\ \A i \in Threads :
              FailingStep(i) =>
                 /\ UNCHANGED <<_DATA_CACHE, _LAST_UPDATE, _DATA_IS_FRESH,
                                _LAST_FETCH_DURATION_SECONDS>>
                 /\ thread'[i] = "sleep60" => _LAST_FETCH_STATUS' = "failed"
        /\ _DATA_CACHE.present =>
              /\ _DATA_CACHE'.present
              /\ (\A i \in Threads : \/ thread'[i] # "sleep300"
                                     \/ thread[i] = "sleep300")
                    => _DATA_CACHE' = _DATA_CACHE
      ]_vars

\* C29 witness: a Snapshot was published, a later cycle failed, and the
\* page built after the failure shows the Snapshot.
C29_Witness ==
    /\ _DATA_CACHE.present
    /\ _LAST_FETCH_STATUS = "failed"
    /\ _LAST_FETCH_ERROR # "None"
    /\ _LAST_FETCH_DURATION_SECONDS # -1
    /\ response.endpoint = "layout"
    /\ response.state = "dashboard"
    /\ cycles >= 2

====
